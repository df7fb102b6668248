------------------------------ MODULE Lineage -------------------------------
(***************************************************************************)
(* What a spawned agent may do, compared with the agents above it.         *)
(*                                                                         *)
(* Capability and scope arithmetic (aura-core-permissions), the mode gate  *)
(* (aura-core-modes), the derivation of a child (aura-agent-subagent), and *)
(* the two tools that create one: task and spawn_agent (aura-tools,        *)
(* aura-engine/agents/host.rs).  A call reads the context its turn was     *)
(* built with and then the host's table, which may have changed since; the *)
(* child enters the table later still.                                     *)
(***************************************************************************)
EXTENDS Naturals, Sequences

CONSTANTS
    Roots,      \* agents of chat sessions
    Hosted,     \* ids of spawned agents
    Turns,      \* turns that may be running
    Targets,    \* what a scope or a project capability names
    Bundles,    \* the permissions a session holds or a caller asks for
    Kinds,      \* kinds of subagent, each its set of allowed capabilities
    MaxDepth,   \* SubagentDerivationConfig::max_depth, AgentHostConfig::max_depth
    ToolDepth,  \* MAX_SUBAGENT_DEPTH of the task tool
    Reuse,      \* may a caller preassign an id that was given out before?
    Nothing     \* no context, plan, override or id

VARIABLES
    table,      \* the host's agents
    ctx,        \* the tool context of each running turn
    plan,       \* the child each turn is creating
    born        \* history: the chain every spawned id was first given

lineageVars == <<table, ctx, plan, born>>

Agents == Roots \cup Hosted

-----------------------------------------------------------------------------
(* Capabilities and permissions. *)

Plain == {"spawnAgent", "controlAgent", "readAgent", "listAgents", "manageOrgMembers",
          "manageBilling", "invokeProcess", "postToFeed", "generateMedia", "computerUse",
          "readAllProjects", "writeAllProjects"}

Capability == (Plain \X {Nothing}) \cup ({"readProject", "writeProject"} \X Targets)

SpawnAgent == <<"spawnAgent", Nothing>>

(* A wildcard covers every project, and writing covers reading. *)
satisfies(held, required) ==
    \/ held = required
    \/ held[1] \in {"readAllProjects", "writeAllProjects"} /\ required[1] = "readProject"
    \/ held[1] = "writeAllProjects" /\ required[1] = "writeProject"
    \/ /\ held[1] = "writeProject" /\ required[1] = "readProject"
       /\ held[2] = required[2]

(* The axes of a scope; an empty one restricts nothing. *)
Axes == {"orgs", "projects", "agent_ids"}
Scope == [Axes -> SUBSET Targets]
Permissions == [scope : Scope, capabilities : SUBSET Capability]

axis_contains(p, c) == p = {} \/ (c # {} /\ c \subseteq p)

axis_intersect(a, b) == IF a = {} THEN b ELSE IF b = {} THEN a ELSE a \cap b

scope_contains(s, t) == \A x \in Axes : axis_contains(s[x], t[x])

allows(perms, cap) == \E held \in perms.capabilities : satisfies(held, cap)

contains(p, q) ==
    /\ scope_contains(p.scope, q.scope)
    /\ \A c \in q.capabilities : allows(p, c)

narrow(p, q) ==
    [scope |-> [x \in Axes |-> axis_intersect(p.scope[x], q.scope[x])],
     capabilities |-> p.capabilities \cap q.capabilities]

(* What the kind of a child leaves of a bundle. *)
narrow_permissions(p, kind) ==
    [scope |-> p.scope,
     capabilities |-> {h \in p.capabilities : \E a \in kind : satisfies(h, a)}]

-----------------------------------------------------------------------------
(* Modes. *)

Modes == {"Agent", "Plan", "Ask", "Debug"}

GatedAction == {"ReadFile", "WriteMarkdown", "WriteNonMarkdown", "Subprocess", "Network",
                "SpawnAgent", "PluginActivate", "ToolInvoke", "SandboxedProbe"}

(* The actions a mode lets through. *)
ModeGate(mode) ==
    {a \in GatedAction :
       \/ mode = "Agent"
       \/ a = "ReadFile"
       \/ mode = "Plan" /\ a \notin {"WriteNonMarkdown", "Network", "SpawnAgent"}
       \/ mode = "Ask" /\ a = "ToolInvoke"
       \/ mode = "Debug" /\ a = "SandboxedProbe"}

allows_spawn(mode) == mode = "Agent"

narrowing_allowed(parent, child) ==
    \/ parent = "Agent"
    \/ parent = "Plan" /\ child # "Agent"
    \/ parent = child

-----------------------------------------------------------------------------
(* An agent: its ancestors, nearest first; its permissions and mode; and, as
   history, the permissions and mode of each ancestor when it spawned. *)
Standing == [perms : Permissions, mode : Modes]
Entry == [chain : Seq(Agents), perms : Permissions, mode : Modes, above : SUBSET Standing]
Context == [agent : Agents, entry : Entry]
Plan == [child : Hosted, entry : Entry]

StandingOf(e) == [perms |-> e.perms, mode |-> e.mode]

RootEntry(perms, mode) == [chain |-> <<>>, perms |-> perms, mode |-> mode, above |-> {}]

Put(a, e) == [x \in DOMAIN table \cup {a} |-> IF x = a THEN e ELSE table[x]]

In(x, s) == \E i \in DOMAIN s : s[i] = x

(* The policy gates of a call to task or spawn_agent, both of class Spawn. *)
PassesGates(e) == "SpawnAgent" \in ModeGate(e.mode) /\ allows(e.perms, SpawnAgent)

(* A session builds the kernel of its next turn, which registers its agent
   with what the session holds now. *)
RootTurn(t, a, perms, mode) ==
    /\ ctx[t] = Nothing
    /\ table' = Put(a, RootEntry(perms, mode))
    /\ ctx' = [ctx EXCEPT ![t] = [agent |-> a, entry |-> RootEntry(perms, mode)]]
    /\ UNCHANGED <<plan, born>>

(* The host starts a turn of a spawned agent, with the setup of its entry. *)
HostedTurn(t, a) ==
    /\ ctx[t] = Nothing
    /\ a \in DOMAIN table
    /\ ctx' = [ctx EXCEPT ![t] = [agent |-> a, entry |-> table[a]]]
    /\ UNCHANGED <<table, plan, born>>

(* A turn ends, or is dropped in the middle of a call. *)
EndTurn(t) ==
    /\ ctx[t] # Nothing
    /\ ctx' = [ctx EXCEPT ![t] = Nothing]
    /\ plan' = [plan EXCEPT ![t] = Nothing]
    /\ UNCHANGED <<table, born>>

Begin(t, c, e) ==
    /\ plan' = [plan EXCEPT ![t] = [child |-> c, entry |-> e]]
    /\ born' = [x \in DOMAIN born \cup {c} |-> IF x \in DOMAIN born THEN born[x] ELSE e.chain]
    /\ UNCHANGED <<table, ctx>>

(* derive.  The context never carries the caller's mode, so that the request
   says Agent and only the gates speak for the mode. *)
derive(parentPerms, parentDepth, mode, requested) ==
    IF \/ parentDepth + 1 > MaxDepth
       \/ ~narrowing_allowed("Agent", mode)
       \/ ~allows_spawn("Agent")
       \/ \E c \in requested.capabilities : ~allows(parentPerms, c)
    THEN {} ELSE {narrow(parentPerms, requested)}

(* task: the gates, build_request, dispatch_task with its derivation, and the
   plan of the child.  The id is generated. *)
Task(t, c, kind, mode, override) ==
    LET own == ctx[t].entry
        p   == ctx[t].agent
        requested == narrow_permissions(IF override = Nothing THEN own.perms ELSE override, kind)
    IN  /\ ctx[t] # Nothing /\ plan[t] = Nothing
        /\ PassesGates(own)
        /\ Len(own.chain) < ToolDepth
        /\ ~In(p, own.chain)
        /\ p \in DOMAIN table
        /\ c \notin DOMAIN born
        /\ \E derived \in derive(own.perms, Len(own.chain) + 1, mode, requested) :
             Begin(t, c, [chain |-> <<p>> \o table[p].chain,
                          perms |-> narrow_permissions(derived, kind),
                          mode  |-> mode,
                          above |-> own.above \cup {StandingOf(own)}])

(* spawn_agent: the gates, evaluate, and the checks of the host against its own
   entry of the caller, whose mode the child gets.  Without a request the child
   gets what the caller has.  The id may be preassigned. *)
Spawn(t, c, request) ==
    LET own == ctx[t].entry
        p   == ctx[t].agent
        perms == IF request = Nothing THEN own.perms ELSE request
    IN  /\ ctx[t] # Nothing /\ plan[t] = Nothing
        /\ PassesGates(own)
        /\ contains(own.perms, perms)
        /\ ~In(c, own.chain)
        /\ p \in DOMAIN table
        /\ allows_spawn(table[p].mode)
        /\ contains(table[p].perms, perms)
        /\ Len(table[p].chain) + 2 <= MaxDepth
        /\ c \notin DOMAIN table
        /\ Reuse \/ c \notin DOMAIN born
        /\ Begin(t, c, [chain |-> <<p>> \o table[p].chain,
                        perms |-> perms,
                        mode  |-> table[p].mode,
                        above |-> own.above \cup table[p].above
                                  \cup {StandingOf(own), StandingOf(table[p])}])

(* create_child ends: the entry goes in, whatever is there. *)
Insert(t) ==
    /\ plan[t] # Nothing
    /\ table' = Put(plan[t].child, plan[t].entry)
    /\ plan' = [plan EXCEPT ![t] = Nothing]
    /\ UNCHANGED <<ctx, born>>

(* An agent leaves the table with its descendants, or they without it. *)
remove_subtree(a, self) ==
    LET gone == {x \in DOMAIN table : (self /\ x = a) \/ In(a, table[x].chain)}
    IN  /\ table' = [x \in DOMAIN table \ gone |-> table[x]]
        /\ UNCHANGED <<ctx, plan, born>>

LineageInit ==
    /\ table = [x \in {} |-> Nothing]
    /\ ctx = [t \in Turns |-> Nothing]
    /\ plan = [t \in Turns |-> Nothing]
    /\ born = [x \in {} |-> <<>>]

Call(t) ==
    \E c \in Hosted :
      \/ \E kind \in Kinds, mode \in Modes, override \in Bundles \cup {Nothing} :
           Task(t, c, kind, mode, override)
      \/ \E request \in Bundles \cup {Nothing} : Spawn(t, c, request)

LineageNext ==
    \/ \E t \in Turns :
         \/ \E a \in Roots, perms \in Bundles, mode \in Modes : RootTurn(t, a, perms, mode)
         \/ \E a \in Hosted : HostedTurn(t, a)
         \/ EndTurn(t) \/ Call(t) \/ Insert(t)
    \/ \E a \in Agents, self \in BOOLEAN : remove_subtree(a, self)

LineageSpec == LineageInit /\ [][LineageNext]_lineageVars

-----------------------------------------------------------------------------
(* Properties. *)

LineageTypeOK ==
    /\ DOMAIN table \subseteq Agents /\ table \in [DOMAIN table -> Entry]
    /\ ctx \in [Turns -> Context \cup {Nothing}]
    /\ plan \in [Turns -> Plan \cup {Nothing}]
    /\ DOMAIN born \subseteq Hosted /\ born \in [DOMAIN born -> Seq(Agents)]

(* Whatever e's capabilities and mode let through, those of every ancestor let
   through when it spawned the next agent of the line. *)
Within(e) ==
    \A u \in e.above :
      /\ \A cap \in Capability : allows(e.perms, cap) => allows(u.perms, cap)
      /\ ModeGate(e.mode) \subseteq ModeGate(u.mode)

(* No agent of the host's table may do more than the agents above it could when
   they spawned (math.rs:10, derivation.rs:127), although its call reads two
   snapshots and is not checked again when the child enters the table. *)
NeverWider == \A a \in DOMAIN table : Within(table[a])

Distinct(s) == \A i, j \in DOMAIN s : s[i] = s[j] => i = j

(* A line is shorter than the depth limit (host.rs:700, derivation.rs:95) and
   no agent is its own ancestor (task.rs:184, spawn_agent.rs:159). *)
LineageBounded ==
    \A a \in DOMAIN table :
      /\ Len(table[a].chain) < MaxDepth
      /\ Distinct(table[a].chain) /\ ~In(a, table[a].chain)
=============================================================================
