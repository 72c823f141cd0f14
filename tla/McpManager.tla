----------------------------- MODULE McpManager -----------------------------
(***************************************************************************)
(* The life of the MCP servers: MCPManager.start and stop, build_agent,    *)
(* which starts them, and the lifespan hook of the app, which stops them.  *)
(* start takes the enabled servers one after the other and may fail at any *)
(* of them; stop unwinds an ExitStack of which any client may raise.  A    *)
(* stopped manager may be started again: stop resets it for that.          *)
(***************************************************************************)
EXTENDS Naturals, SequencesExt

CONSTANTS Servers,    \* server names
          Enabled,    \* Settings.mcp_enabled_servers, in order; names may repeat
          MaxStarts   \* calls of start considered

ASSUME McpAssumption ==
    /\ Enabled \in Seq(Servers)
    /\ MaxStarts \in Nat \ {0}

VARIABLES config,     \* what mcp.config.json says
          stage,      \* of the worker, see TypeOK
          upto,       \* the start loop's position in Enabled
          starts,     \* calls of start made, bounded by MaxStarts
          started,    \* _started
          stack,      \* clients on the ExitStack
          tools,      \* clients whose tools are in _tools
          running,    \* clients whose subprocess runs
          agentTools, \* clients whose tools the Agent was built with
          raised,     \* a client's __exit__ has raised in this stop ...
          spoiled     \* ... or in any stop (observed, never read)

vars == <<config, stage, upto, starts, started, stack, tools, running, agentTools,
          raised, spoiled>>

\* A file that _load_config and start accept or not, and for every server no
\* entry, one that _build_client refuses, or a good one.
Configs == [readable : BOOLEAN, entry : [Servers -> {"absent", "malformed", "good"}]]

\* A client is built for one position of Enabled in one call of start.
Client == (DOMAIN Enabled) \X (1 .. MaxStarts)
Name(c) == Enabled[c[1]]

Init ==
    /\ config \in Configs
    /\ stage = "building"
    /\ upto = 0 /\ starts = 0
    /\ started = FALSE
    /\ stack = <<>> /\ tools = <<>> /\ agentTools = <<>>
    /\ running = {}
    /\ raised = FALSE /\ spoiled = FALSE

\* start, up to the loop.
Start ==
    /\ stage = "building" /\ upto = 0
    /\ starts < MaxStarts
    /\ starts' = starts + 1
    /\ \/ /\ started \/ Enabled = <<>>
          /\ started' = TRUE
          /\ stage' = "assembling"
          /\ UNCHANGED upto
       \/ /\ ~started /\ Enabled # <<>> /\ ~config.readable
          /\ stage' = "aborted"
          /\ UNCHANGED <<upto, started>>
       \/ /\ ~started /\ Enabled # <<>> /\ config.readable
          /\ upto' = 1
          /\ UNCHANGED <<stage, started>>
    /\ UNCHANGED <<config, stack, tools, running, agentTools, raised, spoiled>>

Looping == stage = "building" /\ upto \in DOMAIN Enabled

\* Mutant: an entry that cannot be used is skipped.
RefuseServerSkips ==
    /\ Looping
    /\ config.entry[Enabled[upto]] # "good"
    /\ upto' = upto + 1
    /\ UNCHANGED <<config, stage, starts, started, stack, tools, running, agentTools, raised, spoiled>>

\* MCPConfigError, or the client does not connect: enter_context raises and
\* leaves nothing on the stack.
RefuseServer ==
    /\ Looping
    /\ stage' = "aborted" /\ upto' = 0
    /\ UNCHANGED <<config, starts, started, stack, tools, running, agentTools, raised, spoiled>>

\* Mutant: the tools are listed before the client is put on the stack.
ListToolsFailsOffStack ==
    /\ Looping
    /\ config.entry[Enabled[upto]] = "good"
    /\ running' = running \cup {<<upto, starts>>}
    /\ stage' = "aborted" /\ upto' = 0
    /\ UNCHANGED <<config, starts, started, stack, tools, agentTools, raised, spoiled>>

\* The client is on the stack when list_tools_sync raises.
ListToolsFails ==
    /\ Looping
    /\ config.entry[Enabled[upto]] = "good"
    /\ running' = running \cup {<<upto, starts>>}
    /\ stack' = Append(stack, <<upto, starts>>)
    /\ stage' = "aborted" /\ upto' = 0
    /\ UNCHANGED <<config, starts, started, tools, agentTools, raised, spoiled>>

\* Mutant: the tools are filed under the server before.
StartServerMisfiled ==
    /\ Looping
    /\ config.entry[Enabled[upto]] = "good"
    /\ running' = running \cup {<<upto, starts>>}
    /\ stack' = Append(stack, <<upto, starts>>)
    /\ tools' = Append(tools, <<upto - 1, starts>>)
    /\ upto' = upto + 1
    /\ UNCHANGED <<config, stage, starts, started, agentTools, raised, spoiled>>

StartServer ==
    /\ Looping
    /\ config.entry[Enabled[upto]] = "good"
    /\ running' = running \cup {<<upto, starts>>}
    /\ stack' = Append(stack, <<upto, starts>>)
    /\ tools' = Append(tools, <<upto, starts>>)
    /\ upto' = upto + 1
    /\ UNCHANGED <<config, stage, starts, started, agentTools, raised, spoiled>>

StartReturns ==
    /\ stage = "building" /\ upto = Len(Enabled) + 1
    /\ started' = TRUE
    /\ stage' = "assembling" /\ upto' = 0
    /\ UNCHANGED <<config, starts, stack, tools, running, agentTools, raised, spoiled>>

\* The rest of build_agent and create_app: the Agent gets a copy of the tools.
Assemble ==
    /\ stage = "assembling"
    /\ stage' = "serving"
    /\ agentTools' = tools
    /\ UNCHANGED <<config, upto, starts, started, stack, tools, running, raised, spoiled>>

AssembleRaises ==
    /\ stage = "assembling"
    /\ stage' = "aborted"
    /\ UNCHANGED <<config, upto, starts, started, stack, tools, running, agentTools, raised, spoiled>>

\* stop is called: by the lifespan hook when the app shuts down, or by whoever
\* built a manager that did not start.
Stop ==
    /\ stage \in {"serving", "aborted"}
    /\ stage' = "stopping"
    /\ raised' = FALSE
    /\ UNCHANGED <<config, upto, starts, started, stack, tools, running, agentTools, spoiled>>

\* Mutant: the unwinding ends at the first client that raises.
CloseRaisesAborts ==
    /\ stage = "stopping" /\ stack # <<>>
    /\ running' = running \ {Last(stack)}
    /\ stack' = <<>>
    /\ raised' = TRUE /\ spoiled' = TRUE
    /\ UNCHANGED <<config, stage, upto, starts, started, tools, agentTools>>

\* ExitStack.close: last in, first out, also after an exception.
CloseRaises ==
    /\ stage = "stopping" /\ stack # <<>>
    /\ running' = running \ {Last(stack)}
    /\ stack' = Front(stack)
    /\ raised' = TRUE /\ spoiled' = TRUE
    /\ UNCHANGED <<config, stage, upto, starts, started, tools, agentTools>>

Close ==
    /\ stage = "stopping" /\ stack # <<>>
    /\ running' = running \ {Last(stack)}
    /\ stack' = Front(stack)
    /\ UNCHANGED <<config, stage, upto, starts, started, tools, agentTools, raised, spoiled>>

\* Mutant: the tools are kept.
StopReturnsKeepsTools ==
    /\ stage = "stopping" /\ stack = <<>>
    /\ stage' = "down"
    /\ started' = FALSE
    /\ UNCHANGED <<config, upto, starts, stack, tools, running, agentTools, raised, spoiled>>

\* Mutant: stop returns only when no client has raised.
StopReturnsIfClean ==
    /\ stage = "stopping" /\ stack = <<>> /\ ~raised
    /\ stage' = "down"
    /\ started' = FALSE /\ tools' = <<>>
    /\ UNCHANGED <<config, upto, starts, stack, running, agentTools, raised, spoiled>>

\* An exception of the stack is raised again before the manager is reset.
StopReturns ==
    /\ stage = "stopping" /\ stack = <<>>
    /\ stage' = "down"
    /\ IF raised
       THEN UNCHANGED <<started, tools>>
       ELSE started' = FALSE /\ tools' = <<>>
    /\ UNCHANGED <<config, upto, starts, stack, running, agentTools, raised, spoiled>>

\* The manager is started again, for a new Agent.
Reuse ==
    /\ stage = "down"
    /\ stage' = "building"
    /\ agentTools' = <<>>
    /\ UNCHANGED <<config, upto, starts, started, stack, tools, running, raised, spoiled>>

Finished == stage = "building" /\ upto = 0 /\ starts = MaxStarts /\ UNCHANGED vars

\* What runs by itself once stop has been called.
Unwind == CloseRaises \/ Close \/ StopReturns

Next ==
    \/ Start \/ RefuseServer \/ ListToolsFails \/ StartServer \/ StartReturns
    \/ Assemble \/ AssembleRaises
    \/ Stop \/ Unwind \/ Reuse \/ Finished

Spec == Init /\ [][Next]_vars

\* stop runs in one thread to its end, and every client's __exit__ returns or
\* raises.
FairSpec == Spec /\ WF_vars(Unwind)

----------------------------------------------------------------------------
\* The type of every variable.
TypeOK ==
    /\ config \in Configs
    /\ stage \in {"building", "assembling", "serving", "aborted", "stopping", "down"}
    /\ upto \in 0 .. Len(Enabled) + 1
    /\ starts \in 0 .. MaxStarts
    /\ started \in BOOLEAN /\ raised \in BOOLEAN /\ spoiled \in BOOLEAN
    /\ stack \in Seq(Client) /\ tools \in Seq(Client) /\ agentTools \in Seq(Client)
    /\ running \in SUBSET Client

\* stop can reach every subprocess: one that runs is on the stack, at every
\* point of a start that fails halfway.
NoOrphans == running \subseteq Range(stack)

\* stop ends everything that start began, also when a client raises while it is
\* closed and also after a start that failed halfway.
StopEndsEverything == stage = "down" => running = {}

\* Unless a stop has raised before, an Agent that serves has the tools of every
\* enabled server, from subprocesses that run: start is all or nothing.
ServesEveryServer ==
    stage = "serving" /\ ~spoiled =>
        \A s \in Range(Enabled) : \E c \in Range(agentTools) : Name(c) = s /\ c \in running

\* Unless a stop has raised before, the manager lists no tool of a server that
\* is gone, before, between and after its starts and stops.
ToolsAreLive ==
    ~spoiled /\ stage # "stopping" => Range(tools) \subseteq running

\* A stop that has begun comes to its end, with nothing running, whichever
\* clients raise on the way.
StopCompletes == stage = "stopping" ~> stage = "down" /\ running = {}

----------------------------------------------------------------------------
(* Statements of the documentation that a run refutes.                     *)

\* start: "Load the config and start every enabled server."
StartedMeansRunning ==
    stage = "assembling" =>
        \A s \in Range(Enabled) : \E c \in running : Name(c) = s
=============================================================================
