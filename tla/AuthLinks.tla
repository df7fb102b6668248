----------------------------- MODULE AuthLinks ------------------------------
(***************************************************************************)
(* The subscription links of a machine: AuthManager                        *)
(* (aura-auth/src/manager.rs) over its vault (aura-auth/src/vault/mod.rs). *)
(* Requests of one process ask for a provider's credential and refresh it  *)
(* under a lock per link, while a sign-in, an unlink and a change of the   *)
(* signed-in identity, of this process or of another, edit the vault.      *)
(*                                                                         *)
(* The index of the vault is one file that every operation loads, changes  *)
(* and saves with no lock, so these are two steps.  Its links have places; *)
(* removing one leaves the order of the others alone.  Tokens are stored  *)
(* per link; a refresh token is the number of its issue.  How close an     *)
(* access token is to its expiry is open each time it is read.             *)
(***************************************************************************)
EXTENDS Naturals, FiniteSets

CONSTANTS
    Requests,          \* calls of inference_credential
    signin, unlink, identity,   \* a sign-in, an unlink, and a zOS login with its logout
    Providers,
    Wants,             \* the provider each request, the sign-in and the unlink are about
    Scenarios,         \* bound: the sets of these that meet in one behaviour
    None

Actors == Requests \cup {signin, unlink, identity}
Ids == Providers \cup {signin}     \* links: one per provider at first, and the new one
Owners == {"local", "zos"}
End == Cardinality(Providers) + 1  \* where the new link goes

ASSUME AuthAssumption ==
    /\ signin # unlink /\ unlink # identity /\ identity # signin
    /\ Requests \cap {signin, unlink, identity} = {} /\ Providers \cap Actors = {}
    /\ Wants \in [Actors \ {identity} -> Providers]
    /\ Scenarios \subseteq SUBSET Actors
    /\ None \notin Ids \cup Actors \cup Nat
    /\ Cardinality(Providers) \in Nat

VARIABLES
    session,    \* the owner of the active identity
    index,      \* index.json: the links, and the client ids issued
    secrets,    \* per link: the refresh token stored, or None
    lock,       \* per link: the request that holds refresh_locks[id], or None
    at,         \* where each actor stands
    owner,      \* per actor: the owner it has read
    held,       \* per actor: the link it has read, or None
    key,        \* per request: the link whose lock it waits for or holds
    token,      \* per request: the tokens it has read, and their age
    copy,       \* per actor: the index update_index has loaded, or None
    doomed,     \* per actor: the links whose tokens it is about to delete
    minted,     \* per link: how many refresh tokens the provider has issued
    spent,      \* history: refresh tokens for which a successor has been received
    demanded,   \* history: links for which the provider has demanded a new sign-in
    strayed     \* history: links worked on under the lock of another

vaultVars == <<session, index, secrets>>
localVars == <<owner, held, key, token, copy, doomed>>
providerVars == <<minted, spent, demanded, strayed>>
vars == <<vaultVars, lock, at, localVars, providerVars>>

Link(id, who, p, plan, status) ==
    [id |-> id, owner |-> who, provider |-> p, plan_enabled |-> plan, status |-> status]

NoTokens == [refresh |-> None, age |-> "fresh"]

\* Signed out, with one link to each provider.
Init ==
    \E who \in Scenarios, order \in {s \in [1..Cardinality(Providers) -> Providers] :
                                       \A p \in Providers : \E i \in DOMAIN s : s[i] = p} :
    /\ at = [a \in Actors |-> IF a \in who THEN "coming" ELSE "over"]
    /\ session = "local"
    /\ index = [links |-> [i \in DOMAIN order |-> Link(order[i], "local", order[i], TRUE, "Active")],
                issued |-> {}]
    /\ secrets = [i \in Ids |-> IF i \in Providers THEN 0 ELSE None]
    /\ lock = [i \in Ids |-> None]
    /\ owner = [a \in Actors |-> "local"] /\ held = [a \in Actors |-> None]
    /\ key = [r \in Requests |-> None] /\ token = [r \in Requests |-> NoTokens]
    /\ copy = [a \in Actors |-> None] /\ doomed = [a \in Actors |-> {}]
    /\ minted = [i \in Ids |-> 1]
    /\ spent = {} /\ demanded = {} /\ strayed = {}

Goto(a, place) == at' = [at EXCEPT ![a] = place]

\* Vault::link: the first of the owner's links to the provider.
link(who, p) ==
    LET ls    == index.links
        mine  == {i \in DOMAIN ls : ls[i].owner = who /\ ls[i].provider = p}
        first == {i \in mine : \A j \in mine : i <= j}
    IN  IF first = {} THEN None ELSE ls[CHOOSE i \in first : TRUE]

\* Vault::update_index, first half; the actor's next step saves the index.
LoadIndex(a) == copy' = [copy EXCEPT ![a] = index]

SaveIndex(a, links, issued) ==
    /\ index' = [links |-> links, issued |-> issued]
    /\ copy' = [copy EXCEPT ![a] = None]

\* Vault::update_link
UpdateLink(a, l) ==
    LET old == copy[a].links
        first == {i \in DOMAIN old : /\ old[i].id = l.id
                                     /\ \A j \in DOMAIN old : j < i => old[j].id # l.id}
    IN  SaveIndex(a, [i \in DOMAIN old |-> IF i \in first THEN l ELSE old[i]], copy[a].issued)

----------------------------------------------------------------------------
(* credential_for                                                           *)

\* The call returns, and what it has read and its guard are dropped.
Answer(r, outcome) ==
    /\ Goto(r, outcome)
    /\ lock' = [i \in Ids |-> IF lock[i] = r THEN None ELSE lock[i]]
    /\ held' = [held EXCEPT ![r] = None]
    /\ key' = [key EXCEPT ![r] = None]
    /\ token' = [token EXCEPT ![r] = NoTokens]

\* The link is looked up for its lock.
FindLink(r) ==
    /\ at[r] = "coming"
    /\ owner' = [owner EXCEPT ![r] = session]
    /\ LET l == link(session, Wants[r]) IN
       IF l = None THEN Goto(r, "error") /\ UNCHANGED key
       ELSE Goto(r, "lock") /\ key' = [key EXCEPT ![r] = l.id]
    /\ UNCHANGED <<vaultVars, lock, held, token, copy, doomed, providerVars>>

\* Mutant: the refresh lock is not waited for.
LockAny(id) == TRUE

LockFree(id) == lock[id] = None

\* Mutant: a link that needs a new sign-in is refused with the lock held on to.
RefuseHolding(r) ==
    /\ Goto(r, "error")
    /\ lock' = [lock EXCEPT ![key[r]] = r]
    /\ UNCHANGED <<held, key, token>>

\* A link that cannot serve: no plan, no tokens, a new sign-in demanded, or gone.
Refuse(r) == Answer(r, "error")

\* Under the lock, the link is read again, with its tokens; they are used as they are,
\* or exchanged when they are close to their expiry.
LockAndRead(r) ==
    /\ at[r] = "lock" /\ LockFree(key[r])
    /\ LET l == link(owner[r], Wants[r]) IN
       IF \/ l = None
          \/ l.status = "ReauthRequired"
          \/ ~l.plan_enabled
          \/ secrets[l.id] = None
       THEN Refuse(r) /\ UNCHANGED strayed
       ELSE /\ strayed' = strayed \cup ({l.id} \ {key[r]})
            /\ \/ Answer(r, "credential")
               \/ \E age \in {"closing", "expired"} :
                    /\ lock' = [lock EXCEPT ![key[r]] = r]
                    /\ held' = [held EXCEPT ![r] = l]
                    /\ token' = [token EXCEPT ![r] = [refresh |-> secrets[l.id], age |-> age]]
                    /\ Goto(r, "refresh")
                    /\ UNCHANGED key
    /\ UNCHANGED <<vaultVars, owner, copy, doomed, minted, spent, demanded>>

\* The exchange succeeds: the tokens are stored at once, then the link is updated.
\* A provider need not replace the refresh token.
Refreshed(r) ==
    /\ at[r] = "refresh"
    /\ LET id == held[r].id IN
       \E plan \in BOOLEAN, rotates \in BOOLEAN :
         /\ held' = [held EXCEPT ![r] = Link(@.id, @.owner, @.provider, plan, @.status)]
         /\ IF rotates
            THEN /\ secrets' = [secrets EXCEPT ![id] = minted[id]]
                 /\ minted' = [minted EXCEPT ![id] = @ + 1]
                 /\ spent' = spent \cup {<<id, token[r].refresh>>}
            ELSE /\ secrets' = [secrets EXCEPT ![id] = token[r].refresh]
                 /\ UNCHANGED <<minted, spent>>
    /\ LoadIndex(r)
    /\ Goto(r, "update")
    /\ UNCHANGED <<session, index, lock, owner, key, token, doomed, demanded, strayed>>

UpdateRefreshed(r) ==
    /\ at[r] = "update"
    /\ UpdateLink(r, held[r])
    /\ Answer(r, IF held[r].plan_enabled THEN "credential" ELSE "error")
    /\ UNCHANGED <<session, secrets, owner, doomed, providerVars>>

\* The provider demands a new sign-in.
ReauthDemanded(r) ==
    /\ at[r] = "refresh"
    /\ held' = [held EXCEPT ![r] =
                   Link(@.id, @.owner, @.provider, @.plan_enabled, "ReauthRequired")]
    /\ demanded' = demanded \cup {held[r].id}
    /\ LoadIndex(r)
    /\ Goto(r, "demote")
    /\ UNCHANGED <<vaultVars, lock, owner, key, token, doomed, minted, spent, strayed>>

UpdateDemoted(r) ==
    /\ at[r] = "demote"
    /\ UpdateLink(r, held[r])
    /\ Goto(r, "clear")
    /\ UNCHANGED <<session, secrets, lock, owner, held, key, token, doomed, providerVars>>

\* Mutant: the link's status is relied on, and its tokens are kept.
ClearNothing(r) ==
    /\ at[r] = "clear"
    /\ Answer(r, "error")
    /\ UNCHANGED <<vaultVars, owner, copy, doomed, providerVars>>

ClearTokens(r) ==
    /\ at[r] = "clear"
    /\ secrets' = [secrets EXCEPT ![held[r].id] = None]
    /\ Answer(r, "error")
    /\ UNCHANGED <<session, index, owner, copy, doomed, providerVars>>

\* The exchange fails otherwise, or times out: tokens that had not expired when they
\* were read are used once more.
RefreshFails(r) ==
    /\ at[r] = "refresh"
    /\ Answer(r, IF token[r].age = "closing" THEN "credential" ELSE "error")
    /\ UNCHANGED <<vaultVars, owner, copy, doomed, providerVars>>

\* The caller gives up, and drops the future where it awaits.
Dropped(r) ==
    /\ at[r] \in {"lock", "refresh"}
    /\ Answer(r, "error")
    /\ UNCHANGED <<vaultVars, owner, copy, doomed, providerVars>>

----------------------------------------------------------------------------
(* begin_link and finish_link                                               *)

Account == <<Wants[signin], owner[signin]>>

\* The sign-in belongs to the identity that starts it.
BeginLink ==
    /\ at[signin] = "coming"
    /\ owner' = [owner EXCEPT ![signin] = session]
    /\ Goto(signin, "browser")
    /\ UNCHANGED <<vaultVars, lock, held, key, token, copy, doomed, providerVars>>

\* The callback arrives, and the identity is still the one that started.
Callback ==
    /\ at[signin] = "browser"
    /\ IF session = owner[signin]
       THEN /\ held' = [held EXCEPT ![signin] = link(owner[signin], Wants[signin])]
            /\ Goto(signin, "exchange")
       ELSE Goto(signin, "over") /\ UNCHANGED held
    /\ UNCHANGED <<vaultVars, lock, owner, key, token, copy, doomed, providerVars>>

CallbackFails ==
    /\ at[signin] = "browser"
    /\ Goto(signin, "over")
    /\ UNCHANGED <<vaultVars, lock, localVars, providerVars>>

\* The client id a failed sign-in was issued is remembered, for lack of a link with one.
ExchangeFails ==
    /\ at[signin] = "exchange"
    /\ \/ Goto(signin, "over") /\ UNCHANGED copy
       \/ held[signin] = None /\ LoadIndex(signin) /\ Goto(signin, "issue")
    /\ UNCHANGED <<vaultVars, lock, owner, held, key, token, doomed, providerVars>>

IssueClient ==
    /\ at[signin] = "issue"
    /\ SaveIndex(signin, copy[signin].links, copy[signin].issued \cup {Account})
    /\ Goto(signin, "over")
    /\ UNCHANGED <<session, secrets, lock, owner, held, key, token, doomed, providerVars>>

\* put_link: the tokens first, then the index, then the tokens of what was replaced.
Exchanged ==
    /\ at[signin] = "exchange"
    /\ \E plan \in BOOLEAN :
         held' = [held EXCEPT ![signin] =
                    Link(signin, owner[signin], Wants[signin], plan, "Active")]
    /\ secrets' = [secrets EXCEPT ![signin] = 0]
    /\ LoadIndex(signin)
    /\ Goto(signin, "put")
    /\ UNCHANGED <<session, index, lock, owner, key, token, doomed, providerVars>>

PutLink ==
    /\ at[signin] = "put"
    /\ LET Replaces(l) == <<l.provider, l.owner>> = Account
           old == copy[signin].links
           kept == {i \in DOMAIN old : ~Replaces(old[i])} IN
       /\ SaveIndex(signin, [i \in kept \cup {End} |-> IF i = End THEN held[signin] ELSE old[i]],
                    copy[signin].issued)
       /\ doomed' = [doomed EXCEPT ![signin] =
                       {old[i].id : i \in {j \in DOMAIN old : Replaces(old[j])}} \ {signin}]
    /\ Goto(signin, "tidy")
    /\ UNCHANGED <<session, secrets, lock, owner, held, key, token, providerVars>>

ForgetClient ==
    /\ at[signin] = "forget"
    /\ SaveIndex(signin, copy[signin].links, copy[signin].issued \ {Account})
    /\ Goto(signin, "over")
    /\ UNCHANGED <<session, secrets, lock, owner, held, key, token, doomed, providerVars>>

\* put_link and move_links delete the tokens of the links they took out; then
\* finish_link goes on to forget the issued client.
ClearDoomed(a) ==
    /\ at[a] = "tidy"
    /\ secrets' = [i \in Ids |-> IF i \in doomed[a] THEN None ELSE secrets[i]]
    /\ doomed' = [doomed EXCEPT ![a] = {}]
    /\ IF a = signin THEN LoadIndex(a) /\ Goto(a, "forget") ELSE Goto(a, "in") /\ UNCHANGED copy
    /\ UNCHANGED <<session, index, lock, owner, held, key, token, providerVars>>

----------------------------------------------------------------------------
(* unlink, and the identity                                                 *)

\* unlink reads the link, and tells the provider.
Unlink ==
    /\ at[unlink] = "coming"
    /\ held' = [held EXCEPT ![unlink] = link(session, Wants[unlink])]
    /\ Goto(unlink, IF held'[unlink] = None THEN "over" ELSE "revoke")
    /\ UNCHANGED <<vaultVars, lock, owner, key, token, copy, doomed, providerVars>>

\* remove_link: the tokens, then the index.
RemoveTokens ==
    /\ at[unlink] = "revoke"
    /\ secrets' = [secrets EXCEPT ![held[unlink].id] = None]
    /\ LoadIndex(unlink)
    /\ Goto(unlink, "remove")
    /\ UNCHANGED <<session, index, lock, owner, held, key, token, doomed, providerVars>>

RemoveLink ==
    /\ at[unlink] = "remove"
    /\ LET old == copy[unlink].links
           kept == {i \in DOMAIN old : old[i].id # held[unlink].id}
       IN  SaveIndex(unlink, [i \in kept |-> old[i]], copy[unlink].issued)
    /\ Goto(unlink, "over")
    /\ UNCHANGED <<session, secrets, lock, owner, held, key, token, doomed, providerVars>>

LoginZos ==
    /\ at[identity] = "coming"
    /\ session' = "zos"
    /\ Goto(identity, "in")
    /\ UNCHANGED <<index, secrets, lock, localVars, providerVars>>

LogoutZos ==
    /\ at[identity] = "in"
    /\ session' = "local"
    /\ Goto(identity, "over")
    /\ UNCHANGED <<index, secrets, lock, localVars, providerVars>>

MoveLoads ==
    /\ at[identity] = "in"
    /\ LoadIndex(identity)
    /\ Goto(identity, "move")
    /\ UNCHANGED <<vaultVars, lock, owner, held, key, token, doomed, providerVars>>

\* move_links: links of the signed-in user win, and the local ones they hide go.
MoveLinks ==
    /\ at[identity] = "move"
    /\ LET old == copy[identity].links
           taken == {old[i].provider : i \in {j \in DOMAIN old : old[j].owner = "zos"}}
           dropped == {old[i].id : i \in {j \in DOMAIN old : /\ old[j].owner = "local"
                                                             /\ old[j].provider \in taken}}
           kept == {i \in DOMAIN old : old[i].id \notin dropped}
           Moved(l) == Link(l.id, "zos", l.provider, l.plan_enabled, l.status) IN
       /\ SaveIndex(identity, [i \in kept |-> Moved(old[i])],
                    copy[identity].issued)
       /\ doomed' = [doomed EXCEPT ![identity] = dropped]
    /\ Goto(identity, "tidy")
    /\ UNCHANGED <<session, secrets, lock, owner, held, key, token, providerVars>>

----------------------------------------------------------------------------
\* What an exchange with the provider comes to; it is over within REQUEST_TIMEOUT.
ExchangeEnds(r) == Refreshed(r) \/ ReauthDemanded(r) \/ RefreshFails(r)

RequestSteps(r) ==
    \/ FindLink(r) \/ LockAndRead(r) \/ ExchangeEnds(r)
    \/ UpdateRefreshed(r) \/ UpdateDemoted(r) \/ ClearTokens(r)

SignInSteps ==
    \/ BeginLink \/ Callback \/ CallbackFails \/ ExchangeFails \/ IssueClient
    \/ Exchanged \/ PutLink \/ ClearDoomed(signin) \/ ForgetClient

Next ==
    \/ \E r \in Requests : RequestSteps(r) \/ Dropped(r)
    \/ SignInSteps
    \/ Unlink \/ RemoveTokens \/ RemoveLink
    \/ LoginZos \/ LogoutZos \/ MoveLoads \/ MoveLinks \/ ClearDoomed(identity)

\* A request's future is polled until it returns or is dropped.
Fairness == \A r \in Requests : WF_vars(RequestSteps(r))

Spec == Init /\ [][Next]_vars /\ Fairness

----------------------------------------------------------------------------
Links == [id: Ids, owner: Owners, provider: Providers, plan_enabled: BOOLEAN,
          status: {"Active", "ReauthRequired"}]
Tokens == Nat \cup {None}

(* Every variable keeps its shape.                                          *)
TypeOK ==
    /\ session \in Owners /\ owner \in [Actors -> Owners]
    /\ DOMAIN index.links \subseteq 1..End
    /\ index.links \in [DOMAIN index.links -> Links]
    /\ index.issued \subseteq Providers \X Owners
    /\ secrets \in [Ids -> Tokens] /\ minted \in [Ids -> Nat]
    /\ lock \in [Ids -> Requests \cup {None}] /\ key \in [Requests -> Ids \cup {None}]
    /\ held \in [Actors -> Links \cup {None}]
    /\ token \in [Requests -> [refresh: Tokens, age: {"fresh", "closing", "expired"}]]
    /\ doomed \in [Actors -> SUBSET Ids]
    /\ spent \subseteq Ids \X Nat /\ demanded \subseteq Ids /\ strayed \subseteq Ids

(* credential_for ("Re-read under the lock", "Persist the rotated refresh token before  *)
(* anything can use it"): a refresh token is not presented once its successor has been  *)
(* received, and no two requests present the same one so that one of them is spent,     *)
(* whatever moves, replaces or removes the link meanwhile.  A link replaced while a     *)
(* request waited is the exception: it is worked on under the lock of the old one.      *)
RefreshOnce ==
    \A r \in Requests :
      at[r] = "refresh" /\ held[r].id \notin strayed
      => <<held[r].id, token[r].refresh>> \notin spent

(* credential_for: once the provider has demanded a new sign-in for a link, no request  *)
(* is given a credential of that link, even when the index that says so is overwritten  *)
(* by another operation that loaded it before.                                          *)
ReauthIsFinal ==
    [][\A r \in Requests :
         at[r] # "credential" /\ at'[r] = "credential"
         => LET l == IF at[r] = "lock" THEN link(owner[r], Wants[r]) ELSE held[r]
            IN  l.id \in demanded => l.id \in strayed']_vars

(* credential_for: every request is answered, with a credential or an error: the lock   *)
(* is given up on every path, also by a request that is dropped.                        *)
RequestsAnswered ==
    \A r \in Requests : at[r] = "lock" ~> at[r] \in {"credential", "error"}
=============================================================================
