--------------------------- MODULE AuthLinksProofs ---------------------------
(***************************************************************************)
(* Proofs about AuthLinks, for any requests, providers and scenarios.      *)
(*                                                                         *)
(* The argument is about the lock of a link.  A request that works on link *)
(* i holds the lock of i, unless i was worked on under another lock        *)
(* before; so at most one request at a time can have read the tokens of i, *)
(* and what it has read is still current when it is exchanged, although    *)
(* the index around it is loaded and saved by others without any lock.     *)
(***************************************************************************)
EXTENDS AuthLinks, TLAPS

\* Most steps are first-order reasoning; the ones that need arithmetic cite SMT.
USE Zenon

-----------------------------------------------------------------------------
(* The inductive invariant. *)

\* An index as it is stored or copied.
IndexOK(x) ==
    /\ DOMAIN x.links \subseteq 1..End
    /\ \A i \in DOMAIN x.links : x.links[i] \in Links

Names(x, id) == \E i \in DOMAIN x.links : x.links[i].id = id

\* An actor here is about to save the index it has loaded.
Saving == {"update", "demote", "issue", "put", "forget", "remove", "move"}

\* A request here has read a link and its tokens, and holds a lock.
Busy == {"refresh", "update", "demote", "clear"}

\* The sign-in here has not created its link yet.
Before == {"coming", "browser", "exchange"}

Shape ==
    /\ session \in Owners /\ owner \in [Actors -> Owners]
    /\ DOMAIN at = Actors /\ DOMAIN held = Actors /\ DOMAIN copy = Actors
    /\ DOMAIN key = Requests /\ DOMAIN token = Requests /\ DOMAIN lock = Ids
    /\ IndexOK(index)
    /\ \A a \in Actors : at[a] \in Saving => IndexOK(copy[a])
    /\ at[signin] = "put" => held[signin] \in Links

\* Until the sign-in creates its link, nothing names it.
Unborn ==
    at[signin] \in Before =>
      /\ ~Names(index, signin)
      /\ \A a \in Actors : at[a] \in Saving => ~Names(copy[a], signin)
      /\ \A r \in Requests : at[r] \in Busy => held[r].id # signin
      /\ signin \notin demanded
      /\ \A s \in spent : s[1] # signin

\* A busy request holds the lock of the link it works on, or that link strayed.
Locked ==
    /\ \A r \in Requests : at[r] = "lock" => key[r] \in Ids
    /\ \A r \in Requests :
         at[r] \in Busy =>
           /\ held[r] \in Links /\ key[r] \in Ids
           /\ lock[key[r]] = r
           /\ held[r].id = key[r] \/ held[r].id \in strayed

\* Tokens are older than the next one to be issued, and stored ones are unspent.
Issued ==
    /\ secrets \in [Ids -> Tokens] /\ minted \in [Ids -> Nat \ {0}]
    /\ spent \subseteq Ids \X Nat
    /\ \A i \in Ids : secrets[i] # None => secrets[i] < minted[i]
    /\ \A s \in spent : s[2] < minted[s[1]]
    /\ \A i \in Ids : secrets[i] # None /\ i \notin strayed => <<i, secrets[i]>> \notin spent
    /\ \A r \in Requests :
         at[r] = "refresh" =>
           /\ token[r].refresh \in Nat
           /\ token[r].refresh < minted[held[r].id]
           /\ held[r].id \notin strayed => <<held[r].id, token[r].refresh>> \notin spent

\* The tokens of a link that needs a new sign-in are gone, or about to be cleared
\* by the request that was told so; and no other request has read them.
Final ==
    /\ \A i \in Ids :
         i \in demanded /\ i \notin strayed =>
           \/ secrets[i] = None
           \/ \E r \in Requests : at[r] \in {"demote", "clear"} /\ held[r].id = i
    /\ \A r \in Requests :
         at[r] \in {"refresh", "update"} /\ held[r].id \in demanded => held[r].id \in strayed

AuthInv == Shape /\ Unborn /\ Locked /\ Issued /\ Final

-----------------------------------------------------------------------------
(* Facts about the operators of the model. *)

\* A link that is found is one of the index (Vault::link).
LEMMA LinkFound ==
    ASSUME IndexOK(index), NEW who, NEW p, link(who, p) # None
    PROVE  /\ link(who, p) \in Links
           /\ Names(index, link(who, p).id)
<1>1. PICK i \in DOMAIN index.links : link(who, p) = index.links[i]
  BY DEF link
<1> QED
  BY <1>1 DEF IndexOK, Names

\* The values of a request's actions are told apart from everyone else's.
LEMMA ActorFacts ==
    /\ Requests \subseteq Actors /\ {signin, unlink, identity} \subseteq Actors
    /\ signin \notin Requests /\ unlink \notin Requests /\ identity \notin Requests
    /\ signin # unlink /\ unlink # identity /\ identity # signin
    /\ None \notin Requests /\ None \notin Nat
    /\ signin \in Ids /\ Wants[signin] \in Providers
  BY AuthAssumption DEF Actors, Ids

\* Steps that leave the requests and their tokens alone, but may delete tokens.
LEMMA QuietKeeps ==
    ASSUME AuthInv,
           UNCHANGED <<lock, key, token, providerVars>>,
           \A r \in Requests : at'[r] = at[r] /\ held'[r] = held[r],
           secrets' \in [Ids -> Tokens],
           \A i \in Ids : secrets'[i] \in {secrets[i], None}
    PROVE  Locked' /\ Issued' /\ Final'
<1> USE DEF providerVars
<1>1. Locked'
  BY DEF AuthInv, Locked
<1>2. Issued'
  BY DEF AuthInv, Issued
<1>3. Final'
  BY ZenonT(30) DEF AuthInv, Final
<1> QED
  BY <1>1, <1>2, <1>3

Domains ==
    /\ session \in Owners /\ owner \in [Actors -> Owners]
    /\ DOMAIN at = Actors /\ DOMAIN held = Actors /\ DOMAIN copy = Actors
    /\ DOMAIN key = Requests /\ DOMAIN token = Requests /\ DOMAIN lock = Ids

\* The vault's side of a step of actor a: an actor about to save has just loaded the
\* index, and a link in someone's hands was in theirs before or is in the index.
LEMMA VaultKeeps ==
    ASSUME AuthInv, NEW a \in Actors,
           Domains',
           at'[signin] \in Before => at[signin] \in Before,
           IndexOK(index'),
           at'[signin] \in Before => ~Names(index', signin),
           \A b \in Actors : b # a => at'[b] = at[b] /\ copy'[b] = copy[b],
           at'[a] \in Saving => copy'[a] = index,
           at'[signin] = "put" => held'[signin] \in Links,
           \A r \in Requests : at'[r] \in Busy =>
             \/ at[r] \in Busy /\ held'[r].id = held[r].id
             \/ Names(index, held'[r].id),
           at'[signin] \in Before => demanded' = demanded \/ signin \notin demanded',
           at'[signin] \in Before => spent' = spent \/ \A s \in spent' : s[1] # signin
    PROVE  Shape' /\ Unborn'
<1>1. \A b \in Actors : at'[b] \in Saving => IndexOK(copy'[b])
  BY DEF AuthInv, Shape
<1>2. Shape'
  BY <1>1 DEF Shape, Domains
<1>3. ASSUME at'[signin] \in Before PROVE \A b \in Actors : at'[b] \in Saving => ~Names(copy'[b], signin)
  BY <1>3 DEF AuthInv, Unborn
<1>4. ASSUME at'[signin] \in Before PROVE \A r \in Requests : at'[r] \in Busy => held'[r].id # signin
  BY <1>4 DEF AuthInv, Unborn
<1>5. Unborn'
  BY <1>3, <1>4 DEF AuthInv, Unborn
<1> QED
  BY <1>2, <1>5

\* Steps of the sign-in, the unlink and the identity that do not save the index.
LEMMA ReadersKeep ==
    ASSUME AuthInv,
           \/ BeginLink \/ Callback \/ CallbackFails \/ ExchangeFails
           \/ Unlink \/ LoginZos \/ LogoutZos \/ MoveLoads
    PROVE  AuthInv'
<1> USE DEF Goto, LoadIndex, vaultVars, localVars, providerVars
<1>1. Locked' /\ Issued' /\ Final'
  <2>1. UNCHANGED <<lock, key, token, providerVars, secrets>>
    BY DEF BeginLink, Callback, CallbackFails, ExchangeFails, Unlink, LoginZos, LogoutZos, MoveLoads
  <2>2. \A r \in Requests : at'[r] = at[r] /\ held'[r] = held[r]
    BY ActorFacts DEF BeginLink, Callback, CallbackFails, ExchangeFails, Unlink, LoginZos,
       LogoutZos, MoveLoads, AuthInv, Shape
  <2>3. secrets' \in [Ids -> Tokens]
    BY <2>1 DEF AuthInv, Issued
  <2> QED
    BY <2>1, <2>2, <2>3, QuietKeeps
<1>2. Shape' /\ Unborn'
  <2> DEFINE Touches(a) ==
        /\ \A b \in Actors : b # a => at'[b] = at[b] /\ copy'[b] = copy[b]
        /\ at'[a] \in Saving => copy'[a] = index
  <2>1. Domains'
    BY ActorFacts, ZenonT(30) DEF BeginLink, Callback, CallbackFails, ExchangeFails, Unlink, LoginZos,
       LogoutZos, MoveLoads, AuthInv, Shape, Domains, Owners
  <2>2. /\ at'[signin] \in Before => at[signin] \in Before
        /\ at'[signin] = "put" => held'[signin] \in Links
    BY ActorFacts DEF BeginLink, Callback, CallbackFails, ExchangeFails, Unlink, LoginZos,
       LogoutZos, MoveLoads, AuthInv, Shape, Before
  <2>3. UNCHANGED <<index, demanded, spent>>
    BY DEF BeginLink, Callback, CallbackFails, ExchangeFails, Unlink, LoginZos, LogoutZos, MoveLoads
  <2>4. \A r \in Requests : at'[r] = at[r] /\ held'[r] = held[r]
    BY ActorFacts DEF BeginLink, Callback, CallbackFails, ExchangeFails, Unlink, LoginZos,
       LogoutZos, MoveLoads, AuthInv, Shape
  <2>5. \E a \in Actors : Touches(a)
    <3>1. CASE BeginLink \/ Callback \/ CallbackFails \/ ExchangeFails
      <4> Touches(signin)
        BY <3>1, ActorFacts DEF BeginLink, Callback, CallbackFails, ExchangeFails, AuthInv, Shape,
                                Saving
      <4> QED
        BY ActorFacts
    <3>2. CASE Unlink
      <4> Touches(unlink)
        BY <3>2, ActorFacts DEF Unlink, AuthInv, Shape, Saving
      <4> QED
        BY ActorFacts
    <3>3. CASE LoginZos \/ LogoutZos \/ MoveLoads
      <4> Touches(identity)
        BY <3>3, ActorFacts DEF LoginZos, LogoutZos, MoveLoads, AuthInv, Shape, Saving
      <4> QED
        BY ActorFacts
    <3> QED
      BY <3>1, <3>2, <3>3
  <2>6. /\ IndexOK(index') /\ (at'[signin] \in Before => ~Names(index', signin))
    BY <2>2, <2>3 DEF AuthInv, Shape, Unborn
  <2> QED
    BY <2>1, <2>2, <2>3, <2>4, <2>5, <2>6, VaultKeeps
<1> QED
  BY <1>1, <1>2 DEF AuthInv

\* What sign-in, unlink and identity save is made of the index they loaded.
LEMMA SaversKeep ==
    ASSUME AuthInv, IssueClient \/ PutLink \/ ForgetClient \/ RemoveLink \/ MoveLinks
    PROVE  AuthInv'
<1> USE DEF Goto, SaveIndex, vaultVars, localVars, providerVars
<1>1. UNCHANGED <<session, owner, lock, key, token, held, secrets, providerVars>>
  BY DEF IssueClient, PutLink, ForgetClient, RemoveLink, MoveLinks
<1>2. \A r \in Requests : at'[r] = at[r] /\ held'[r] = held[r]
  BY <1>1, ActorFacts DEF IssueClient, PutLink, ForgetClient, RemoveLink, MoveLinks, AuthInv, Shape
<1>3. Locked' /\ Issued' /\ Final'
  <2>1. secrets' \in [Ids -> Tokens]
    BY <1>1 DEF AuthInv, Issued
  <2> QED
    BY <1>1, <1>2, <2>1, QuietKeeps
<1>4. Domains'
  BY <1>1 DEF IssueClient, PutLink, ForgetClient, RemoveLink, MoveLinks, AuthInv, Shape, Domains
<1>5. /\ at'[signin] \in Before => at[signin] \in Before
      /\ at'[signin] = "put" => held'[signin] \in Links
  BY <1>1, ActorFacts DEF IssueClient, PutLink, ForgetClient, RemoveLink, MoveLinks, AuthInv,
     Shape, Before
<1> DEFINE Touches(a) ==
      /\ \A b \in Actors : b # a => at'[b] = at[b] /\ copy'[b] = copy[b]
      /\ at'[a] \in Saving => copy'[a] = index
<1>6. IndexOK(index') /\ (at'[signin] \in Before => ~Names(index', signin))
      /\ \E a \in Actors : Touches(a)
  <2>1. CASE IssueClient \/ ForgetClient
    <3>1. IndexOK(copy[signin]) /\ index'.links = copy[signin].links /\ at'[signin] = "over"
      BY <2>1, ActorFacts, SMT DEF IssueClient, ForgetClient, AuthInv, Shape, Saving
    <3>2. Touches(signin)
      BY <2>1, ActorFacts DEF IssueClient, ForgetClient, AuthInv, Shape, Saving
    <3> QED
      BY <3>1, <3>2, ActorFacts DEF IndexOK, Before
  <2>2. CASE PutLink
    <3> DEFINE old == copy[signin].links
    <3>1. IndexOK(copy[signin]) /\ at'[signin] = "tidy" /\ held[signin] \in Links
      BY <2>2, ActorFacts DEF PutLink, AuthInv, Shape, Saving
    <3>2. \A i \in DOMAIN index'.links :
            \/ i = End /\ index'.links[i] = held[signin]
            \/ i \in DOMAIN old /\ index'.links[i] = old[i]
      BY <2>2 DEF PutLink
    <3>3. Touches(signin)
      BY <2>2, ActorFacts DEF PutLink, AuthInv, Shape, Saving
    <3>4. End \in 1..End
      BY AuthAssumption, SMT DEF End
    <3> QED
      BY <3>1, <3>2, <3>3, <3>4, ActorFacts DEF IndexOK, Before
  <2>3. CASE RemoveLink
    <3> DEFINE old == copy[unlink].links
    <3>1. /\ IndexOK(copy[unlink]) /\ at'[signin] = at[signin]
          /\ at[signin] \in Before => ~Names(copy[unlink], signin)
      BY <2>3, ActorFacts DEF RemoveLink, AuthInv, Shape, Unborn, Saving
    <3>2. \A i \in DOMAIN index'.links : i \in DOMAIN old /\ index'.links[i] = old[i]
      BY <2>3 DEF RemoveLink
    <3>3. Touches(unlink)
      BY <2>3, ActorFacts DEF RemoveLink, AuthInv, Shape, Saving
    <3> QED
      BY <3>1, <3>2, <3>3, ActorFacts DEF IndexOK, Names
  <2>4. CASE MoveLinks
    <3> DEFINE old == copy[identity].links
               Moved(l) == Link(l.id, "zos", l.provider, l.plan_enabled, l.status)
    <3>1. /\ IndexOK(copy[identity]) /\ at'[signin] = at[signin]
          /\ at[signin] \in Before => ~Names(copy[identity], signin)
      BY <2>4, ActorFacts DEF MoveLinks, AuthInv, Shape, Unborn, Saving
    <3>2. \A i \in DOMAIN index'.links :
            i \in DOMAIN old /\ index'.links[i] = Moved(old[i])
      BY <2>4 DEF MoveLinks
    <3>3. \A l \in Links : Moved(l) \in Links /\ Moved(l).id = l.id
      BY DEF Link, Links, Owners
    <3>4. Touches(identity)
      BY <2>4, ActorFacts DEF MoveLinks, AuthInv, Shape, Saving
    <3>5. IndexOK(index')
      BY <3>1, <3>2, <3>3 DEF IndexOK
    <3>6. at'[signin] \in Before => ~Names(index', signin)
      BY <3>1, <3>2, <3>3, SMT DEF IndexOK, Names
    <3> QED
      BY <3>4, <3>5, <3>6, ActorFacts
  <2> QED
    BY <2>1, <2>2, <2>3, <2>4
<1>7. Shape' /\ Unborn'
  BY <1>1, <1>2, <1>4, <1>5, <1>6, VaultKeeps
<1> QED
  BY <1>3, <1>7 DEF AuthInv

\* remove_link, put_link and move_links delete tokens.
LEMMA DeletersKeep ==
    ASSUME AuthInv, RemoveTokens \/ ClearDoomed(signin) \/ ClearDoomed(identity)
    PROVE  AuthInv'
<1> USE DEF Goto, LoadIndex, vaultVars, localVars, providerVars
<1>1. UNCHANGED <<session, index, owner, lock, key, token, held, providerVars>>
  BY DEF RemoveTokens, ClearDoomed
<1>2. \A r \in Requests : at'[r] = at[r] /\ held'[r] = held[r]
  BY <1>1, ActorFacts DEF RemoveTokens, ClearDoomed, AuthInv, Shape
<1>3. secrets' \in [Ids -> Tokens] /\ \A i \in Ids : secrets'[i] \in {secrets[i], None}
  BY DEF RemoveTokens, ClearDoomed, AuthInv, Issued, Tokens
<1>4. Locked' /\ Issued' /\ Final'
  BY <1>1, <1>2, <1>3, QuietKeeps
<1>5. Domains'
  BY <1>1 DEF RemoveTokens, ClearDoomed, AuthInv, Shape, Domains
<1>6. /\ at'[signin] \in Before => at[signin] \in Before
      /\ at'[signin] = "put" => held'[signin] \in Links
  BY <1>1, ActorFacts DEF RemoveTokens, ClearDoomed, AuthInv, Shape, Before
<1>7. IndexOK(index') /\ (at'[signin] \in Before => ~Names(index', signin))
  BY <1>1, <1>6 DEF AuthInv, Shape, Unborn
<1> DEFINE Touches(a) ==
      /\ \A b \in Actors : b # a => at'[b] = at[b] /\ copy'[b] = copy[b]
      /\ at'[a] \in Saving => copy'[a] = index
<1>8. \E a \in Actors : Touches(a)
  <2>1. CASE RemoveTokens
    <3> Touches(unlink)
      BY <2>1, ActorFacts DEF RemoveTokens, AuthInv, Shape, Saving
    <3> QED
      BY ActorFacts
  <2>2. CASE ClearDoomed(signin)
    <3> Touches(signin)
      BY <2>2, ActorFacts DEF ClearDoomed, AuthInv, Shape, Saving
    <3> QED
      BY ActorFacts
  <2>3. CASE ClearDoomed(identity)
    <3> Touches(identity)
      BY <2>3, ActorFacts DEF ClearDoomed, AuthInv, Shape, Saving
    <3> QED
      BY ActorFacts
  <2> QED
    BY <2>1, <2>2, <2>3
<1>9. Shape' /\ Unborn'
  BY <1>1, <1>2, <1>5, <1>6, <1>7, <1>8, VaultKeeps
<1> QED
  BY <1>4, <1>9 DEF AuthInv

\* finish_link stores the first tokens of a link nobody has seen.
LEMMA ExchangedKeeps ==
    ASSUME AuthInv, Exchanged
    PROVE  AuthInv'
<1> USE DEF Goto, LoadIndex, vaultVars, localVars, providerVars
<1>1. UNCHANGED <<session, index, owner, lock, key, token, providerVars>>
  BY DEF Exchanged
<1>2. /\ \A r \in Requests : at'[r] = at[r] /\ held'[r] = held[r]
      /\ at[signin] = "exchange" /\ at'[signin] = "put"
  BY ActorFacts DEF Exchanged, AuthInv, Shape
<1>3. held'[signin] \in Links
  <2>1. PICK plan \in BOOLEAN : held'[signin] = Link(signin, owner[signin], Wants[signin], plan, "Active")
    BY ActorFacts DEF Exchanged, AuthInv, Shape
  <2> QED
    BY <2>1, ActorFacts, SMT DEF Link, Links, AuthInv, Shape
<1>4. /\ secrets' = [secrets EXCEPT ![signin] = 0]
      /\ signin \notin demanded /\ \A s \in spent : s[1] # signin
      /\ \A r \in Requests : at[r] \in Busy => held[r].id # signin
  BY <1>2 DEF Exchanged, AuthInv, Unborn, Before
<1>5. Locked'
  BY <1>1, <1>2 DEF AuthInv, Locked
<1>6. Issued'
  <2>1. secrets' \in [Ids -> Tokens]
    BY <1>4 DEF AuthInv, Issued, Tokens
  <2>2. \A i \in Ids : secrets'[i] # None => secrets'[i] < minted[i]
    BY <1>4, SMT DEF AuthInv, Issued, Tokens
  <2>3. \A i \in Ids : secrets'[i] # None /\ i \notin strayed => <<i, secrets'[i]>> \notin spent
    BY <1>4 DEF AuthInv, Issued
  <2> QED
    BY <1>1, <1>2, <2>1, <2>2, <2>3 DEF AuthInv, Issued
<1>7. Final'
  BY <1>1, <1>2, <1>4, SMT DEF AuthInv, Final, Issued
<1>8. Shape' /\ Unborn'
  <2>1. Domains'
    BY <1>1 DEF Exchanged, AuthInv, Shape, Domains
  <2>2. /\ \A b \in Actors : b # signin => at'[b] = at[b] /\ copy'[b] = copy[b]
        /\ copy'[signin] = index
    BY ActorFacts DEF Exchanged, AuthInv, Shape
  <2>3. IndexOK(index')
    BY <1>1 DEF AuthInv, Shape
  <2>4. at'[signin] \notin Before
    BY <1>2 DEF Before
  <2> QED
    BY <1>1, <1>2, <1>3, <2>1, <2>2, <2>3, <2>4, ActorFacts, VaultKeeps
<1> QED
  BY <1>5, <1>6, <1>7, <1>8 DEF AuthInv

-----------------------------------------------------------------------------
(* The steps of a request. *)

\* A request that answers gives up its lock and takes no one else's.
LEMMA AnswerUnlocks ==
    ASSUME AuthInv, NEW r \in Requests, NEW out \in {"credential", "error"}, Answer(r, out),
           strayed \subseteq strayed'
    PROVE  /\ Locked'
           /\ at'[r] = out
           /\ \A q \in Requests : q # r => at'[q] = at[q] /\ held'[q] = held[q] /\ token'[q] = token[q]
<1> USE DEF Answer, Goto
<1>1. /\ at'[r] = out
      /\ \A q \in Requests : q # r => /\ at'[q] = at[q] /\ held'[q] = held[q]
                                      /\ token'[q] = token[q] /\ key'[q] = key[q]
  BY ActorFacts DEF AuthInv, Shape
<1>2. \A q \in Requests, i \in Ids : q # r /\ lock[i] = q => lock'[i] = q
  OBVIOUS
<1>3. Locked'
  <2>1. \A q \in Requests : at'[q] = "lock" => key'[q] \in Ids
    BY <1>1 DEF AuthInv, Locked
  <2>2. ASSUME NEW q \in Requests, at'[q] \in Busy
        PROVE  /\ held'[q] \in Links /\ key'[q] \in Ids /\ lock'[key'[q]] = q
               /\ held'[q].id = key'[q] \/ held'[q].id \in strayed'
    <3>1. q # r
      BY <1>1, <2>2 DEF Busy
    <3> QED
      BY <1>1, <1>2, <2>2, <3>1, ZenonT(30) DEF AuthInv, Locked
  <2> QED
    BY <2>1, <2>2 DEF Locked
<1> QED
  BY <1>1, <1>3

\* An answer that changes no tokens, from a request that owes none to be cleared.
LEMMA AnswerKeeps ==
    ASSUME AuthInv, NEW r \in Requests, NEW out \in {"credential", "error"}, Answer(r, out),
           at[r] \notin {"demote", "clear"},
           strayed \subseteq strayed', UNCHANGED <<secrets, minted, spent, demanded>>
    PROVE  Locked' /\ Issued' /\ Final'
<1>1. /\ Locked' /\ at'[r] = out
      /\ \A q \in Requests : q # r => at'[q] = at[q] /\ held'[q] = held[q] /\ token'[q] = token[q]
  BY AnswerUnlocks
<1>2. Issued'
  <2>1. \A q \in Requests : at'[q] = "refresh" => q # r
    BY <1>1
  <2> QED
    BY <1>1, <2>1 DEF AuthInv, Issued
<1>3. Final'
  <2>1. \A q \in Requests : at'[q] \in {"refresh", "update"} => q # r
    BY <1>1
  <2> QED
    BY <1>1, <2>1, SMT DEF AuthInv, Final
<1> QED
  BY <1>1, <1>2, <1>3

\* Two busy requests on one link that did not stray are the same: both hold its lock.
LEMMA OneAtATime ==
    ASSUME AuthInv, NEW r \in Requests, NEW q \in Requests,
           at[r] \in Busy, at[q] \in Busy, held[r].id = held[q].id, held[r].id \notin strayed
    PROVE  r = q
  BY ZenonT(30) DEF AuthInv, Locked

\* The vault's side of every request step that does not save the index.
LEMMA RequestVault ==
    ASSUME AuthInv, NEW r \in Requests,
           Domains', UNCHANGED <<index, demanded, spent>>,
           \A b \in Actors : b # r => at'[b] = at[b] /\ copy'[b] = copy[b] /\ held'[b] = held[b],
           at'[r] \in Saving => copy'[r] = index,
           at'[r] \in Busy => \/ at[r] \in Busy /\ held'[r].id = held[r].id
                              \/ Names(index, held'[r].id)
    PROVE  Shape' /\ Unborn'
<1>1. /\ at'[signin] = at[signin] /\ held'[signin] = held[signin] /\ r \in Actors
  BY ActorFacts
<1>2. IndexOK(index') /\ (at'[signin] \in Before => ~Names(index', signin))
  BY <1>1 DEF AuthInv, Shape, Unborn
<1>3. at'[signin] = "put" => held'[signin] \in Links
  BY <1>1 DEF AuthInv, Shape
<1>4. \A q \in Requests : at'[q] \in Busy =>
        \/ at[q] \in Busy /\ held'[q].id = held[q].id
        \/ Names(index, held'[q].id)
  BY ActorFacts
<1> QED
  BY <1>1, <1>2, <1>3, <1>4, VaultKeeps

LEMMA FindLinkKeeps ==
    ASSUME AuthInv, NEW r \in Requests, FindLink(r)
    PROVE  AuthInv'
<1> USE DEF Goto, vaultVars, localVars, providerVars
<1> DEFINE l == link(session, Wants[r])
<1>1. /\ UNCHANGED <<session, index, secrets, lock, held, token, copy, providerVars>>
      /\ \A b \in Actors : b # r => at'[b] = at[b]
      /\ \A q \in Requests : q # r => key'[q] = key[q]
      /\ at'[r] \in {"error", "lock"}
      /\ at'[r] = "lock" => l # None /\ key'[r] = l.id
  BY ActorFacts DEF FindLink, AuthInv, Shape
<1>2. at'[r] = "lock" => key'[r] \in Ids
  BY <1>1, LinkFound, SMT DEF AuthInv, Shape, Links
<1>3. Locked'
  BY <1>1, <1>2, ActorFacts DEF AuthInv, Locked, Busy
<1>4. Issued'
  BY <1>1, ActorFacts DEF AuthInv, Issued
<1>5. Final'
  BY <1>1, ActorFacts, SMT DEF AuthInv, Final, FindLink
<1>6. Domains'
  BY <1>1 DEF FindLink, AuthInv, Shape, Domains
<1>7. Shape' /\ Unborn'
  BY <1>1, <1>6, RequestVault DEF Saving, Busy
<1> QED
  BY <1>3, <1>4, <1>5, <1>7 DEF AuthInv

LEMMA LockAndReadKeeps ==
    ASSUME AuthInv, NEW r \in Requests, LockAndRead(r)
    PROVE  AuthInv'
<1> USE DEF Goto, vaultVars, localVars, providerVars
<1> DEFINE l == link(owner[r], Wants[r])
<1>1. /\ UNCHANGED <<session, index, secrets, owner, copy, minted, spent, demanded>>
      /\ at[r] = "lock" /\ lock[key[r]] = None /\ strayed \subseteq strayed'
  BY DEF LockAndRead, LockFree
<1>2. CASE \E out \in {"credential", "error"} : Answer(r, out)
  <2>1. PICK out \in {"credential", "error"} : Answer(r, out)
    BY <1>2
  <2>2. Locked' /\ Issued' /\ Final'
    BY <1>1, <2>1, AnswerKeeps
  <2>3. /\ Domains' /\ at'[r] \notin Saving /\ at'[r] \notin Busy
        /\ \A b \in Actors : b # r => at'[b] = at[b] /\ copy'[b] = copy[b] /\ held'[b] = held[b]
    BY <1>1, <2>1, ActorFacts DEF Answer, AuthInv, Shape, Domains, Saving, Busy
  <2>4. Shape' /\ Unborn'
    BY <1>1, <2>3, RequestVault
  <2> QED
    BY <2>2, <2>4 DEF AuthInv
<1>3. CASE ~\E out \in {"credential", "error"} : Answer(r, out)
  <2>1. /\ l # None /\ secrets[l.id] # None
        /\ strayed' = strayed \cup ({l.id} \ {key[r]})
        /\ lock' = [lock EXCEPT ![key[r]] = r]
        /\ held' = [held EXCEPT ![r] = l]
        /\ \E age \in {"closing", "expired"} :
             token' = [token EXCEPT ![r] = [refresh |-> secrets[l.id], age |-> age]]
        /\ at' = [at EXCEPT ![r] = "refresh"] /\ key' = key
    BY <1>3 DEF LockAndRead, Refuse
  <2>2. l \in Links /\ Names(index, l.id) /\ l.id \in Ids /\ key[r] \in Ids
    BY <1>1, <2>1, LinkFound DEF AuthInv, Shape, Locked, Links
  <2>3. /\ at'[r] = "refresh" /\ held'[r] = l /\ token'[r].refresh = secrets[l.id]
        /\ \A b \in Actors : b # r => at'[b] = at[b] /\ copy'[b] = copy[b] /\ held'[b] = held[b]
        /\ \A q \in Requests : q # r => token'[q] = token[q]
        /\ lock'[key[r]] = r
        /\ \A i \in Ids : i # key[r] => lock'[i] = lock[i]
    BY <1>1, <2>1, <2>2, ActorFacts, SMT DEF AuthInv, Shape
  <2>4. Locked'
    <3>1. \A q \in Requests : at'[q] = "lock" => key'[q] \in Ids
      BY <2>1, <2>3, ActorFacts DEF AuthInv, Locked
    <3>2. ASSUME NEW q \in Requests, at'[q] \in Busy, q # r
          PROVE  /\ held'[q] \in Links /\ key'[q] \in Ids /\ lock'[key'[q]] = q
                 /\ held'[q].id = key'[q] \/ held'[q].id \in strayed'
      <4>1. /\ held[q] \in Links /\ key[q] \in Ids /\ lock[key[q]] = q
            /\ held[q].id = key[q] \/ held[q].id \in strayed
        BY <2>3, <3>2, ActorFacts DEF AuthInv, Locked
      <4>2. key[q] # key[r]
        BY <1>1, <4>1, ActorFacts
      <4> QED
        BY <1>1, <2>1, <2>3, <3>2, <4>1, <4>2, ActorFacts
    <3>3. /\ held'[r] \in Links /\ key'[r] \in Ids /\ lock'[key'[r]] = r
          /\ held'[r].id = key'[r] \/ held'[r].id \in strayed'
      BY <2>1, <2>2, <2>3, SMT
    <3> QED
      BY <3>1, <3>2, <3>3 DEF Locked
  <2>5. Issued'
    <3>1. /\ token'[r].refresh \in Nat /\ token'[r].refresh < minted[held'[r].id]
          /\ held'[r].id \notin strayed' => <<held'[r].id, token'[r].refresh>> \notin spent
      BY <1>1, <2>1, <2>2, <2>3, SMT DEF AuthInv, Issued, Tokens
    <3> QED
      BY <1>1, <2>3, <3>1, ActorFacts DEF AuthInv, Issued
  <2>6. Final'
    <3>1. \A i \in Ids : i \in demanded' /\ i \notin strayed' =>
            \/ secrets'[i] = None
            \/ \E q \in Requests : at'[q] \in {"demote", "clear"} /\ held'[q].id = i
      <4>1. \A q \in Requests : at[q] \in {"demote", "clear"} => q # r
        BY <1>1
      <4> QED
        BY <1>1, <2>3, <4>1, ActorFacts, SMT DEF AuthInv, Final
    <3>2. l.id \in demanded => l.id \in strayed'
      <4> SUFFICES ASSUME l.id \in demanded, l.id \notin strayed' PROVE FALSE
        OBVIOUS
      <4>1. l.id = key[r] /\ l.id \notin strayed
        BY <2>1
      <4>2. PICK q \in Requests : at[q] \in {"demote", "clear"} /\ held[q].id = l.id
        BY <2>1, <2>2, <4>1 DEF AuthInv, Final
      <4>3. lock[l.id] = q
        BY <4>1, <4>2 DEF AuthInv, Locked, Busy
      <4> QED
        BY <1>1, <4>1, <4>3, ActorFacts
    <3> QED
      BY <1>1, <2>3, <3>1, <3>2, ActorFacts DEF AuthInv, Final
  <2>7. Domains'
    BY <1>1, <2>1 DEF AuthInv, Shape, Domains
  <2>8. Shape' /\ Unborn'
    BY <1>1, <2>2, <2>3, <2>7, RequestVault DEF Saving
  <2> QED
    BY <2>4, <2>5, <2>6, <2>8 DEF AuthInv
<1> QED
  BY <1>2, <1>3

LEMMA RefreshedKeeps ==
    ASSUME AuthInv, NEW r \in Requests, Refreshed(r)
    PROVE  AuthInv'
<1> USE DEF Goto, LoadIndex, vaultVars, localVars, providerVars
<1> DEFINE id == held[r].id
           old == token[r].refresh
<1>1. /\ UNCHANGED <<session, index, lock, owner, key, token, demanded, strayed>>
      /\ at[r] = "refresh" /\ at'[r] = "update" /\ copy'[r] = index
      /\ \A b \in Actors : b # r => at'[b] = at[b] /\ copy'[b] = copy[b] /\ held'[b] = held[b]
  BY ActorFacts DEF Refreshed, AuthInv, Shape
<1>2. /\ held[r] \in Links /\ id \in Ids /\ old \in Nat /\ old < minted[id]
      /\ id \notin strayed => <<id, old>> \notin spent
      /\ id \in demanded => id \in strayed
  BY <1>1 DEF AuthInv, Locked, Issued, Final, Busy, Links
<1>3. held'[r] \in Links /\ held'[r].id = id
  <2>1. PICK plan \in BOOLEAN :
          held' = [held EXCEPT ![r] =
                     Link(held[r].id, held[r].owner, held[r].provider, plan, held[r].status)]
    BY DEF Refreshed
  <2>2. held'[r] = Link(held[r].id, held[r].owner, held[r].provider, plan, held[r].status)
    BY <2>1, ActorFacts DEF AuthInv, Shape
  <2> QED
    BY <1>2, <2>2, SMT DEF Link, Links
<1>4. Locked'
  BY <1>1, <1>3, ActorFacts, ZenonT(30) DEF AuthInv, Locked, Busy
<1>5. \/ /\ secrets' = [secrets EXCEPT ![id] = minted[id]]
         /\ minted' = [minted EXCEPT ![id] = minted[id] + 1]
         /\ spent' = spent \cup {<<id, old>>}
      \/ /\ secrets' = [secrets EXCEPT ![id] = old]
         /\ UNCHANGED <<minted, spent>>
  BY DEF Refreshed
<1>6. /\ \A i \in Ids : i # id => secrets'[i] = secrets[i]
      /\ secrets'[id] \in Nat
      /\ \A i \in Ids : minted[i] <= minted'[i]
      /\ minted' \in [Ids -> Nat \ {0}] /\ secrets' \in [Ids -> Tokens]
  BY <1>2, <1>5, SMT DEF AuthInv, Issued, Tokens
<1>7. Issued'
  <2>1. spent' \subseteq Ids \X Nat /\ \A s \in spent' : s[2] < minted'[s[1]]
    <3>1. \A s \in spent : s[1] \in Ids /\ s[2] \in Nat /\ s[2] < minted'[s[1]]
      BY <1>6, SMT DEF AuthInv, Issued
    <3>2. <<id, old>> \in Ids \X Nat /\ old < minted'[id]
      BY <1>2, <1>6, SMT DEF AuthInv, Issued
    <3>3. spent' \subseteq spent \cup {<<id, old>>}
      BY <1>5
    <3> QED
      BY <3>1, <3>2, <3>3, SMT DEF AuthInv, Issued
  <2>2. \A i \in Ids : secrets'[i] # None => secrets'[i] < minted'[i]
    BY <1>2, <1>5, <1>6, SMT DEF AuthInv, Issued, Tokens
  <2>3. ASSUME NEW i \in Ids, secrets'[i] # None, i \notin strayed
        PROVE  <<i, secrets'[i]>> \notin spent'
    <3>1. CASE i # id
      BY <1>5, <1>6, <2>3, <3>1, SMT DEF AuthInv, Issued
    <3>2. CASE i = id
      <4>1. CASE spent' = spent \cup {<<id, old>>} /\ secrets'[id] = minted[id]
        <5>1. <<id, minted[id]>> \notin spent
          <6> SUFFICES ASSUME <<id, minted[id]>> \in spent PROVE FALSE
            OBVIOUS
          <6>1. minted[id] < minted[id]
            BY DEF AuthInv, Issued
          <6> QED
            BY <1>2, <6>1, SMT DEF AuthInv, Issued
        <5>2. minted[id] # old
          BY <1>2, SMT DEF AuthInv, Issued
        <5> QED
          BY <3>2, <4>1, <5>1, <5>2
      <4>2. CASE spent' = spent /\ secrets'[id] = old
        BY <1>2, <2>3, <3>2, <4>2
      <4> QED
        BY <1>2, <1>5, <4>1, <4>2 DEF AuthInv, Issued
    <3> QED
      BY <3>1, <3>2
  <2>4. ASSUME NEW q \in Requests, at'[q] = "refresh"
        PROVE  /\ token'[q].refresh \in Nat /\ token'[q].refresh < minted'[held'[q].id]
               /\ held'[q].id \notin strayed' => <<held'[q].id, token'[q].refresh>> \notin spent'
    <3>1. q # r /\ at[q] = "refresh" /\ held'[q] = held[q] /\ held[q].id \in Ids
      BY <1>1, <2>4, ActorFacts DEF AuthInv, Locked, Busy, Links
    <3>2. held[q].id \notin strayed => held[q].id # id
      BY <1>1, <3>1, OneAtATime DEF Busy
    <3> QED
      BY <1>1, <1>5, <1>6, <3>1, <3>2, SMT DEF AuthInv, Issued
  <2> QED
    BY <1>1, <1>6, <2>1, <2>2, <2>3, <2>4 DEF Issued
<1>8. Final'
  <2>1. ASSUME NEW i \in Ids, i \in demanded, i \notin strayed
        PROVE  \/ secrets'[i] = None
               \/ \E q \in Requests : at'[q] \in {"demote", "clear"} /\ held'[q].id = i
    <3>1. i # id
      BY <1>2, <2>1
    <3>2. CASE secrets[i] = None
      BY <1>6, <3>1, <3>2
    <3>3. CASE \E q \in Requests : at[q] \in {"demote", "clear"} /\ held[q].id = i
      BY <1>1, <3>3, ActorFacts
    <3> QED
      BY <2>1, <3>2, <3>3 DEF AuthInv, Final
  <2>2. \A q \in Requests :
          at'[q] \in {"refresh", "update"} /\ held'[q].id \in demanded => held'[q].id \in strayed
    BY <1>1, <1>2, <1>3, ActorFacts DEF AuthInv, Final
  <2> QED
    BY <1>1, <2>1, <2>2 DEF Final
<1>9. Shape' /\ Unborn'
  <2>1. Domains'
    BY <1>1 DEF Refreshed, AuthInv, Shape, Domains
  <2>2. at[signin] \in Before => \A s \in spent' : s[1] # signin
    BY <1>1, <1>5, SMT DEF AuthInv, Unborn, Busy
  <2>3. r \in Actors /\ at'[signin] = at[signin] /\ held'[signin] = held[signin]
    BY <1>1, ActorFacts
  <2>4. \A q \in Requests : at'[q] \in Busy => at[q] \in Busy /\ held'[q].id = held[q].id
    BY <1>1, <1>3, ActorFacts DEF Busy
  <2>5. /\ IndexOK(index') /\ (at'[signin] \in Before => ~Names(index', signin))
        /\ at'[signin] = "put" => held'[signin] \in Links
    BY <1>1, <2>3 DEF AuthInv, Shape, Unborn
  <2> QED
    BY <1>1, <2>1, <2>2, <2>3, <2>4, <2>5, VaultKeeps
<1> QED
  BY <1>4, <1>7, <1>8, <1>9 DEF AuthInv

LEMMA ReauthDemandedKeeps ==
    ASSUME AuthInv, NEW r \in Requests, ReauthDemanded(r)
    PROVE  AuthInv'
<1> USE DEF Goto, LoadIndex, vaultVars, localVars, providerVars
<1> DEFINE id == held[r].id
<1>1. /\ UNCHANGED <<session, index, secrets, lock, owner, key, token, minted, spent, strayed>>
      /\ at[r] = "refresh" /\ at'[r] = "demote" /\ copy'[r] = index
      /\ demanded' = demanded \cup {id}
      /\ \A b \in Actors : b # r => at'[b] = at[b] /\ copy'[b] = copy[b] /\ held'[b] = held[b]
  BY ActorFacts DEF ReauthDemanded, AuthInv, Shape
<1>2. held[r] \in Links
  BY <1>1 DEF AuthInv, Locked, Busy
<1>3. held'[r] \in Links /\ held'[r].id = id
  <2>1. held'[r] = Link(held[r].id, held[r].owner, held[r].provider, held[r].plan_enabled,
                        "ReauthRequired")
    BY ActorFacts DEF ReauthDemanded, AuthInv, Shape
  <2> QED
    BY <1>2, <2>1, SMT DEF Link, Links
<1>4. Locked'
  BY <1>1, <1>3, ActorFacts DEF AuthInv, Locked, Busy
<1>5. Issued'
  BY <1>1, ActorFacts DEF AuthInv, Issued
<1>6. Final'
  <2>1. ASSUME NEW i \in Ids, i \in demanded', i \notin strayed
        PROVE  \/ secrets[i] = None
               \/ \E q \in Requests : at'[q] \in {"demote", "clear"} /\ held'[q].id = i
    <3>1. CASE i = id
      BY <1>1, <1>3, <3>1
    <3>2. CASE i # id
      <4>1. \/ secrets[i] = None
            \/ \E q \in Requests : at[q] \in {"demote", "clear"} /\ held[q].id = i
        BY <1>1, <2>1, <3>2 DEF AuthInv, Final
      <4> QED
        BY <1>1, <4>1, ActorFacts
    <3> QED
      BY <3>1, <3>2
  <2>2. ASSUME NEW q \in Requests, at'[q] \in {"refresh", "update"}, held'[q].id \in demanded'
        PROVE  held'[q].id \in strayed
    <3>1. q # r /\ at[q] = at'[q] /\ held'[q] = held[q]
      BY <1>1, <2>2, ActorFacts
    <3>2. held[q].id = id => id \in strayed
      BY <1>1, <2>2, <3>1, OneAtATime DEF Busy
    <3> QED
      BY <1>1, <2>2, <3>1, <3>2 DEF AuthInv, Final
  <2> QED
    BY <1>1, <2>1, <2>2 DEF Final
<1>7. Shape' /\ Unborn'
  <2>1. Domains'
    BY <1>1 DEF ReauthDemanded, AuthInv, Shape, Domains
  <2>2. at[signin] \in Before => signin \notin demanded'
    BY <1>1 DEF AuthInv, Unborn, Busy
  <2>3. r \in Actors /\ at'[signin] = at[signin] /\ held'[signin] = held[signin]
    BY <1>1, ActorFacts
  <2>4. \A q \in Requests : at'[q] \in Busy => at[q] \in Busy /\ held'[q].id = held[q].id
    BY <1>1, <1>3, ActorFacts DEF Busy
  <2>5. /\ IndexOK(index') /\ (at'[signin] \in Before => ~Names(index', signin))
        /\ at'[signin] = "put" => held'[signin] \in Links
    BY <1>1, <2>3 DEF AuthInv, Shape, Unborn
  <2> QED
    BY <1>1, <2>1, <2>2, <2>3, <2>4, <2>5, VaultKeeps
<1> QED
  BY <1>4, <1>5, <1>6, <1>7 DEF AuthInv

\* A busy request writes its own link over the one of that name.
LEMMA UpdateLinkSaves ==
    ASSUME AuthInv, NEW r \in Requests, at[r] \in {"update", "demote"}, UpdateLink(r, held[r])
    PROVE  /\ IndexOK(index') /\ (at[signin] \in Before => ~Names(index', signin))
           /\ \A b \in Actors : b # r => copy'[b] = copy[b]
           /\ DOMAIN copy' = Actors
<1> DEFINE old == copy[r].links
<1>1. /\ IndexOK(copy[r]) /\ held[r] \in Links
      /\ at[signin] \in Before => ~Names(copy[r], signin) /\ held[r].id # signin
  BY ActorFacts DEF AuthInv, Shape, Unborn, Locked, Saving, Busy
<1>2. /\ DOMAIN index'.links = DOMAIN old
      /\ \A i \in DOMAIN old : index'.links[i] \in {held[r], old[i]}
  BY DEF UpdateLink, SaveIndex
<1>3. DOMAIN copy' = Actors /\ \A b \in Actors : b # r => copy'[b] = copy[b]
  BY DEF UpdateLink, SaveIndex, AuthInv, Shape
<1>4. IndexOK(index')
  BY <1>1, <1>2 DEF IndexOK
<1>5. at[signin] \in Before => ~Names(index', signin)
  BY <1>1, <1>2 DEF Names
<1> QED
  BY <1>3, <1>4, <1>5

LEMMA UpdatesKeep ==
    ASSUME AuthInv, NEW r \in Requests, UpdateRefreshed(r) \/ UpdateDemoted(r)
    PROVE  AuthInv'
<1> USE DEF Goto, vaultVars, localVars, providerVars
<1>1. /\ IndexOK(index') /\ (at[signin] \in Before => ~Names(index', signin))
      /\ \A b \in Actors : b # r => copy'[b] = copy[b]
      /\ DOMAIN copy' = Actors
  BY UpdateLinkSaves DEF UpdateRefreshed, UpdateDemoted
<1>2. UNCHANGED <<session, secrets, owner, minted, spent, demanded, strayed>>
  BY DEF UpdateRefreshed, UpdateDemoted
<1>3. CASE UpdateRefreshed(r)
  <2>1. PICK out \in {"credential", "error"} : Answer(r, out)
    BY <1>3 DEF UpdateRefreshed
  <2>2. Locked' /\ Issued' /\ Final'
    BY <1>2, <1>3, <2>1, AnswerKeeps DEF UpdateRefreshed
  <2>3. /\ Domains' /\ at'[r] \notin Saving /\ at'[r] \notin Busy
        /\ \A b \in Actors : b # r => at'[b] = at[b] /\ held'[b] = held[b]
    BY <1>1, <1>2, <2>1, ActorFacts DEF Answer, AuthInv, Shape, Domains, Saving, Busy
  <2>4. r \in Actors /\ at'[signin] = at[signin] /\ held'[signin] = held[signin]
    BY <2>3, ActorFacts
  <2>5. at'[signin] = "put" => held'[signin] \in Links
    BY <2>4 DEF AuthInv, Shape
  <2>6. \A q \in Requests : at'[q] \in Busy => at[q] \in Busy /\ held'[q].id = held[q].id
    BY <2>3, ActorFacts
  <2>7. Shape' /\ Unborn'
    BY <1>1, <1>2, <2>3, <2>4, <2>5, <2>6, VaultKeeps
  <2> QED
    BY <2>2, <2>7 DEF AuthInv
<1>4. CASE UpdateDemoted(r)
  <2>1. /\ UNCHANGED <<lock, held, key, token>>
        /\ at[r] = "demote" /\ at'[r] = "clear"
        /\ \A b \in Actors : b # r => at'[b] = at[b]
        /\ DOMAIN at' = Actors
    BY <1>4, ActorFacts DEF UpdateDemoted, AuthInv, Shape
  <2>2. Locked'
    BY <1>2, <2>1, ActorFacts DEF AuthInv, Locked, Busy
  <2>3. Issued'
    BY <1>2, <2>1, ActorFacts DEF AuthInv, Issued
  <2>4. Final'
    BY <1>2, <2>1, ActorFacts, SMT DEF AuthInv, Final
  <2>5. Domains'
    BY <1>1, <1>2, <2>1 DEF AuthInv, Shape, Domains
  <2>6. r \in Actors /\ at'[signin] = at[signin]
    BY <2>1, ActorFacts
  <2>7. at'[signin] = "put" => held'[signin] \in Links
    BY <2>1, <2>6 DEF AuthInv, Shape
  <2>8. /\ \A q \in Requests : at'[q] \in Busy => at[q] \in Busy /\ held'[q].id = held[q].id
        /\ at'[r] \notin Saving
    BY <2>1, ActorFacts DEF Busy, Saving
  <2>9. Shape' /\ Unborn'
    BY <1>1, <1>2, <2>1, <2>5, <2>6, <2>7, <2>8, VaultKeeps
  <2> QED
    BY <2>2, <2>3, <2>4, <2>9 DEF AuthInv
<1> QED
  BY <1>3, <1>4

LEMMA ClearTokensKeeps ==
    ASSUME AuthInv, NEW r \in Requests, ClearTokens(r)
    PROVE  AuthInv'
<1> USE DEF vaultVars, localVars, providerVars
<1> DEFINE id == held[r].id
<1>1. /\ at[r] = "clear" /\ Answer(r, "error")
      /\ UNCHANGED <<session, index, owner, copy, minted, spent, demanded, strayed>>
      /\ secrets' = [secrets EXCEPT ![id] = None]
  BY DEF ClearTokens
<1>2. /\ Locked' /\ at'[r] = "error"
      /\ \A q \in Requests : q # r => at'[q] = at[q] /\ held'[q] = held[q] /\ token'[q] = token[q]
  BY <1>1, AnswerUnlocks
<1>3. id \in Ids
  BY <1>1 DEF AuthInv, Locked, Busy, Links
<1>4. /\ secrets' \in [Ids -> Tokens] /\ secrets'[id] = None
      /\ \A i \in Ids : i # id => secrets'[i] = secrets[i]
  BY <1>1, <1>3 DEF AuthInv, Issued, Tokens
<1>5. Issued'
  <2>1. \A q \in Requests : at'[q] = "refresh" => q # r
    BY <1>2
  <2> QED
    BY <1>1, <1>2, <1>4, <2>1 DEF AuthInv, Issued
<1>6. Final'
  <2>1. \A q \in Requests : at'[q] \in {"refresh", "update"} => q # r
    BY <1>2
  <2>2. ASSUME NEW i \in Ids, i \in demanded, i \notin strayed
        PROVE  \/ secrets'[i] = None
               \/ \E q \in Requests : at'[q] \in {"demote", "clear"} /\ held'[q].id = i
    <3>1. CASE i = id
      BY <1>4, <3>1
    <3>2. CASE i # id
      <4>1. \/ secrets[i] = None
            \/ \E q \in Requests : at[q] \in {"demote", "clear"} /\ held[q].id = i
        BY <2>2 DEF AuthInv, Final
      <4> QED
        BY <1>2, <1>4, <3>2, <4>1
    <3> QED
      BY <3>1, <3>2
  <2> QED
    BY <1>1, <1>2, <2>1, <2>2 DEF AuthInv, Final
<1>7. /\ Domains' /\ at'[r] \notin Saving /\ at'[r] \notin Busy
      /\ \A b \in Actors : b # r => at'[b] = at[b] /\ copy'[b] = copy[b] /\ held'[b] = held[b]
  BY <1>1, ActorFacts DEF Answer, Goto, AuthInv, Shape, Domains, Saving, Busy
<1>8. Shape' /\ Unborn'
  BY <1>1, <1>7, RequestVault
<1> QED
  BY <1>2, <1>5, <1>6, <1>8 DEF AuthInv

LEMMA GivesUpKeeps ==
    ASSUME AuthInv, NEW r \in Requests, RefreshFails(r) \/ Dropped(r)
    PROVE  AuthInv'
<1> USE DEF vaultVars, localVars, providerVars
<1>1. PICK out \in {"credential", "error"} : Answer(r, out)
  BY DEF RefreshFails, Dropped
<1>2. /\ UNCHANGED <<session, index, secrets, owner, copy, minted, spent, demanded, strayed>>
      /\ at[r] \notin {"demote", "clear"}
  BY DEF RefreshFails, Dropped
<1>3. Locked' /\ Issued' /\ Final'
  BY <1>1, <1>2, AnswerKeeps
<1>4. /\ Domains' /\ at'[r] \notin Saving /\ at'[r] \notin Busy
      /\ \A b \in Actors : b # r => at'[b] = at[b] /\ copy'[b] = copy[b] /\ held'[b] = held[b]
  BY <1>1, <1>2, ActorFacts DEF Answer, Goto, AuthInv, Shape, Domains, Saving, Busy
<1>5. Shape' /\ Unborn'
  BY <1>2, <1>4, RequestVault
<1> QED
  BY <1>3, <1>5 DEF AuthInv

-----------------------------------------------------------------------------
LEMMA InitEstablishes == Init => AuthInv
<1> SUFFICES ASSUME Init PROVE AuthInv
  OBVIOUS
<1>1. PICK who \in Scenarios, order \in [1..Cardinality(Providers) -> Providers] :
        /\ at = [a \in Actors |-> IF a \in who THEN "coming" ELSE "over"]
        /\ index = [links |-> [i \in DOMAIN order |->
                                 Link(order[i], "local", order[i], TRUE, "Active")],
                    issued |-> {}]
  BY DEF Init
<1>2. /\ session = "local" /\ owner = [a \in Actors |-> "local"]
      /\ held = [a \in Actors |-> None] /\ copy = [a \in Actors |-> None]
      /\ key = [r \in Requests |-> None] /\ token = [r \in Requests |-> NoTokens]
      /\ lock = [i \in Ids |-> None]
  BY DEF Init
<1>3. /\ secrets = [i \in Ids |-> IF i \in Providers THEN 0 ELSE None]
      /\ minted = [i \in Ids |-> 1]
      /\ spent = {} /\ demanded = {} /\ strayed = {}
  BY DEF Init
<1>4. /\ \A a \in Actors : at[a] \in {"coming", "over"}
      /\ DOMAIN at = Actors
  BY <1>1
<1>5. /\ DOMAIN index.links = 1..Cardinality(Providers)
      /\ \A i \in DOMAIN index.links :
           index.links[i] = Link(order[i], "local", order[i], TRUE, "Active")
  BY <1>1
<1>6. Cardinality(Providers) \in Nat
  BY AuthAssumption
<1>7. IndexOK(index)
  <2>1. 1..Cardinality(Providers) \subseteq 1..End
    BY <1>6, SMT DEF End
  <2>2. \A i \in 1..Cardinality(Providers) : order[i] \in Providers
    OBVIOUS
  <2>3. \A p \in Providers : Link(p, "local", p, TRUE, "Active") \in Links
    BY DEF Link, Links, Ids, Owners
  <2> QED
    BY <1>5, <2>1, <2>2, <2>3 DEF IndexOK
<1>8. ~Names(index, signin)
  <2>1. \A i \in 1..Cardinality(Providers) : order[i] # signin
    BY AuthAssumption DEF Actors
  <2>2. \A p \in Providers : Link(p, "local", p, TRUE, "Active").id = p
    BY DEF Link
  <2>3. ASSUME NEW i \in DOMAIN index.links PROVE index.links[i].id # signin
    <3>1. order[i] \in Providers /\ order[i] # signin
      BY <1>5, <2>1
    <3>2. index.links[i] = Link(order[i], "local", order[i], TRUE, "Active")
      BY <1>5
    <3> QED
      BY <2>2, <3>1, <3>2
  <2> QED
    BY <2>3 DEF Names
<1>9. Shape
  BY <1>2, <1>4, <1>7, ActorFacts DEF Shape, Saving, Owners
<1>10. Unborn
  BY <1>3, <1>4, <1>8, ActorFacts DEF Unborn, Saving, Busy
<1>11. Locked
  BY <1>4, ActorFacts DEF Locked, Busy
<1>12. Issued
  BY <1>3, <1>4, ActorFacts, SMT DEF Issued, Tokens
<1>13. Final
  BY <1>3, <1>4, ActorFacts DEF Final
<1> QED
  BY <1>9, <1>10, <1>11, <1>12, <1>13 DEF AuthInv

LEMMA StutterKeeps ==
    ASSUME AuthInv, UNCHANGED vars
    PROVE  AuthInv'
<1> USE DEF vars, vaultVars, localVars, providerVars
<1>1. Shape'
  BY DEF AuthInv, Shape, IndexOK
<1>2. Unborn'
  BY DEF AuthInv, Unborn, Names
<1>3. Locked'
  BY DEF AuthInv, Locked
<1>4. Issued'
  BY DEF AuthInv, Issued
<1>5. Final'
  BY DEF AuthInv, Final
<1> QED
  BY <1>1, <1>2, <1>3, <1>4, <1>5 DEF AuthInv

LEMMA NextKeeps == AuthInv /\ [Next]_vars => AuthInv'
<1> SUFFICES ASSUME AuthInv, [Next]_vars PROVE AuthInv'
  OBVIOUS
<1>1. CASE UNCHANGED vars
  BY <1>1, StutterKeeps
<1>2. ASSUME NEW r \in Requests, RequestSteps(r) \/ Dropped(r) PROVE AuthInv'
  BY <1>2, FindLinkKeeps, LockAndReadKeeps, RefreshedKeeps, ReauthDemandedKeeps, UpdatesKeep,
     ClearTokensKeeps, GivesUpKeeps DEF RequestSteps, ExchangeEnds
<1>3. CASE SignInSteps
  BY <1>3, ReadersKeep, SaversKeep, DeletersKeep, ExchangedKeeps DEF SignInSteps
<1>4. CASE \/ Unlink \/ RemoveTokens \/ RemoveLink
           \/ LoginZos \/ LogoutZos \/ MoveLoads \/ MoveLinks \/ ClearDoomed(identity)
  BY <1>4, ReadersKeep, SaversKeep, DeletersKeep
<1> QED
  BY <1>1, <1>2, <1>3, <1>4 DEF Next

LEMMA AuthInvHolds == Spec => []AuthInv
  BY InitEstablishes, NextKeeps, PTL DEF Spec

\* However requests, a sign-in, an unlink and moves of links race, with the index loaded
\* and saved under no lock, no request presents a refresh token whose successor has been
\* received, unless the link was replaced while a request waited for it (credential_for).
THEOREM SpentNeverPresented == Spec => []RefreshOnce
<1>1. AuthInv => RefreshOnce
  BY DEF AuthInv, Issued, RefreshOnce
<1> QED
  BY <1>1, AuthInvHolds, PTL

\* A link for which the provider has demanded a new sign-in serves no request from then
\* on, even when a stale save of the index makes it look active again (credential_for).
THEOREM ReauthStays == Spec => ReauthIsFinal
<1> DEFINE Serves(r) == LET l == IF at[r] = "lock" THEN link(owner[r], Wants[r]) ELSE held[r]
                        IN  l.id \in demanded => l.id \in strayed'
           Step == \A r \in Requests :
                     at[r] # "credential" /\ at'[r] = "credential" => Serves(r)
<1>1. AuthInv /\ [Next]_vars => Step
  <2> SUFFICES ASSUME AuthInv, [Next]_vars, NEW r \in Requests,
                      at[r] # "credential", at'[r] = "credential"
               PROVE  Serves(r)
    OBVIOUS
  <2> USE DEF Goto
  <2>1. /\ ~UNCHANGED vars
        /\ \A q \in Requests : q # r => ~(RequestSteps(q) \/ Dropped(q))
        /\ ~SignInSteps
        /\ ~(\/ Unlink \/ RemoveTokens \/ RemoveLink
             \/ LoginZos \/ LogoutZos \/ MoveLoads \/ MoveLinks \/ ClearDoomed(identity))
    <3>1. ~UNCHANGED vars
      BY DEF vars
    <3>2. ASSUME NEW q \in Requests, q # r, RequestSteps(q) \/ Dropped(q) PROVE FALSE
      BY <3>2, ActorFacts, ZenonT(30) DEF RequestSteps, ExchangeEnds, FindLink, LockAndRead, Refuse, Answer,
         Refreshed, ReauthDemanded, RefreshFails, UpdateRefreshed, UpdateDemoted, ClearTokens,
         Dropped, AuthInv, Shape
    <3>3. ASSUME SignInSteps PROVE FALSE
      BY <3>3, ActorFacts DEF SignInSteps, BeginLink, Callback, CallbackFails, ExchangeFails,
         IssueClient, Exchanged, PutLink, ClearDoomed, ForgetClient, AuthInv, Shape
    <3>4. ASSUME \/ Unlink \/ RemoveTokens \/ RemoveLink
                 \/ LoginZos \/ LogoutZos \/ MoveLoads \/ MoveLinks \/ ClearDoomed(identity)
          PROVE  FALSE
      BY <3>4, ActorFacts DEF Unlink, RemoveTokens, RemoveLink, LoginZos, LogoutZos, MoveLoads,
         MoveLinks, ClearDoomed, AuthInv, Shape
    <3> QED
      BY <3>1, <3>2, <3>3, <3>4
  <2>2. RequestSteps(r) \/ Dropped(r)
    BY <2>1 DEF Next
  <2>3. LockAndRead(r) \/ UpdateRefreshed(r) \/ RefreshFails(r)
    BY <2>2, ActorFacts DEF RequestSteps, ExchangeEnds, FindLink, Answer, Refreshed,
       ReauthDemanded, UpdateDemoted, ClearTokens, Dropped, AuthInv, Shape
  <2>4. CASE LockAndRead(r)
    <3> DEFINE l == link(owner[r], Wants[r])
    <3>1. /\ at[r] = "lock" /\ lock[key[r]] = None
          /\ l # None /\ secrets[l.id] # None
          /\ strayed' = strayed \cup ({l.id} \ {key[r]})
      BY <2>4, ActorFacts DEF LockAndRead, LockFree, Refuse, Answer, AuthInv, Shape
    <3>2. l.id \in Ids
      BY <3>1, LinkFound DEF AuthInv, Shape, Links
    <3>3. l.id \in demanded => l.id \in strayed'
      <4> SUFFICES ASSUME l.id \in demanded, l.id \notin strayed' PROVE FALSE
        OBVIOUS
      <4>1. l.id = key[r] /\ l.id \notin strayed
        BY <3>1
      <4>2. PICK q \in Requests : at[q] \in {"demote", "clear"} /\ held[q].id = l.id
        BY <3>1, <3>2, <4>1 DEF AuthInv, Final
      <4>3. lock[l.id] = q
        BY <4>1, <4>2 DEF AuthInv, Locked, Busy
      <4> QED
        BY <3>1, <4>1, <4>3, ActorFacts
    <3> QED
      BY <3>1, <3>3
  <2>5. CASE UpdateRefreshed(r) \/ RefreshFails(r)
    <3>1. at[r] \in {"update", "refresh"} /\ strayed' = strayed
      BY <2>5 DEF UpdateRefreshed, RefreshFails, providerVars
    <3> QED
      BY <3>1 DEF AuthInv, Final
  <2> QED
    BY <2>3, <2>4, <2>5
<1>2. Spec => [][Step]_vars
  BY <1>1, AuthInvHolds, PTL DEF Spec
<1> QED
  BY <1>2 DEF ReauthIsFinal
=============================================================================
