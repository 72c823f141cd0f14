-------------------------- MODULE McpManagerProofs --------------------------
(***************************************************************************)
(* Proofs about McpManager, for every list of enabled servers (names may   *)
(* repeat), every configuration file and every number of starts.           *)
(***************************************************************************)
EXTENDS McpManager, SequenceTheorems, TLAPS

\* Appending adds one element to the range of a sequence.
LEMMA RangeOfAppend ==
    ASSUME NEW S, NEW s \in Seq(S), NEW x \in S
    PROVE  /\ Append(s, x) \in Seq(S)
           /\ Range(Append(s, x)) = Range(s) \cup {x}
<1>1. Append(s, x) \in Seq(S) /\ Len(Append(s, x)) = Len(s) + 1
      /\ Append(s, x)[Len(s) + 1] = x /\ \A i \in 1 .. Len(s) : Append(s, x)[i] = s[i]
    OBVIOUS
<1>2. DOMAIN s = 1 .. Len(s) /\ DOMAIN Append(s, x) = 1 .. Len(s) + 1 /\ Len(s) \in Nat
    BY <1>1
<1> QED
    BY <1>1, <1>2 DEF Range

\* Taking the last element off leaves the range, without it at the most.
LEMMA RangeOfFront ==
    ASSUME NEW S, NEW s \in Seq(S), s # <<>>
    PROVE  /\ Front(s) \in Seq(S) /\ Len(Front(s)) = Len(s) - 1
           /\ Range(s) \ {Last(s)} \subseteq Range(Front(s))
<1>1. Len(s) \in Nat \ {0} /\ DOMAIN s = 1 .. Len(s) /\ \A i \in 1 .. Len(s) : s[i] \in S
    BY EmptySeq, LenProperties, ElementOfSeq
<1>2. /\ Front(s) \in Seq(S)
      /\ Len(Front(s)) = Len(s) - 1
      /\ \A i \in 1 .. Len(s) - 1 : Front(s)[i] = s[i]
    <2> DEFINE n == Len(s) - 1
    <2>1. n \in Nat /\ \A i \in 1 .. n : s[i] \in S
        BY <1>1
    <2>2. /\ SubSeq(s, 1, n) \in Seq(S)
          /\ Len(SubSeq(s, 1, n)) = IF 1 <= n THEN n - 1 + 1 ELSE 0
          /\ \A i \in 1 .. n - 1 + 1 : SubSeq(s, 1, n)[i] = s[1 + i - 1]
        BY <2>1, SubSeqProperties
    <2>3. n - 1 + 1 = n /\ (IF 1 <= n THEN n - 1 + 1 ELSE 0) = n
        <3> HIDE DEF n
        <3> QED
            BY <2>1
    <2>4. \A i \in 1 .. n : 1 + i - 1 = i
        OBVIOUS
    <2>5. Len(SubSeq(s, 1, n)) = n
        BY <2>2, <2>3
    <2>6. \A i \in 1 .. n : SubSeq(s, 1, n)[i] = s[i]
        BY <2>2, <2>3, <2>4
    <2> QED
        BY <2>2, <2>5, <2>6 DEF Front
<1>3. DOMAIN Front(s) = 1 .. Len(s) - 1
    BY <1>2, LenProperties
<1>4. ASSUME NEW i \in 1 .. Len(s), s[i] # Last(s) PROVE s[i] \in Range(Front(s))
    <2>1. i \in 1 .. Len(s) - 1
        BY <1>1, <1>4 DEF Last
    <2> QED
        BY <1>2, <1>3, <2>1 DEF Range
<1> QED
    BY <1>1, <1>2, <1>4 DEF Range

----------------------------------------------------------------------------
(***************************************************************************)
(* The inductive invariant.                                                *)
(***************************************************************************)

\* The start loop has the tools of every server it has passed, and starts
\* from a manager that is reset, unless a stop has raised.
StartIsInOrder ==
    /\ upto > 0 => stage = "building" /\ starts \in 1 .. MaxStarts
    /\ stage = "building" /\ ~spoiled =>
          \A i \in DOMAIN Enabled : i < upto => <<i, starts>> \in Range(tools)
    /\ stage = "assembling" /\ ~spoiled =>
          \A s \in Range(Enabled) : \E c \in Range(tools) : Name(c) = s
    /\ stage \in {"building", "down"} /\ upto = 0 /\ ~spoiled => ~started
    /\ raised => spoiled

IInv ==
    /\ TypeOK
    /\ NoOrphans
    /\ StopEndsEverything
    /\ ToolsAreLive
    /\ ServesEveryServer
    /\ StartIsInOrder

\* The initial states satisfy the invariant.
LEMMA InitInvariant == Init => IInv
<1> SUFFICES ASSUME Init PROVE IInv
    OBVIOUS
<1>1. Len(Enabled) \in Nat /\ DOMAIN Enabled = 1 .. Len(Enabled) /\ MaxStarts \in Nat
    BY McpAssumption
<1>2. <<>> \in Seq(Client) /\ Range(<<>>) = {}
    BY DEF Range
<1>3. TypeOK
    <2>1. upto \in 0 .. Len(Enabled) + 1 /\ starts \in 0 .. MaxStarts
        BY <1>1 DEF Init
    <2>2. stack \in Seq(Client) /\ tools \in Seq(Client) /\ agentTools \in Seq(Client)
        BY <1>2 DEF Init
    <2>3. running \in SUBSET Client
        BY DEF Init
    <2> QED
        BY <2>1, <2>2, <2>3 DEF Init, TypeOK
<1>4. NoOrphans /\ StopEndsEverything /\ ToolsAreLive /\ ServesEveryServer
    BY <1>2 DEF Init, NoOrphans, StopEndsEverything, ToolsAreLive, ServesEveryServer
<1>5. StartIsInOrder
    BY <1>1 DEF Init, StartIsInOrder
<1> QED
    BY <1>3, <1>4, <1>5 DEF IInv

\* Every step keeps the types.
LEMMA TypeInvariance == IInv /\ [Next]_vars => TypeOK'
<1> SUFFICES ASSUME IInv, [Next]_vars PROVE TypeOK'
    OBVIOUS
<1>0. TypeOK /\ StartIsInOrder /\ Len(Enabled) \in Nat /\ DOMAIN Enabled = 1 .. Len(Enabled)
      /\ MaxStarts \in Nat
    BY McpAssumption DEF IInv
<1>00. <<>> \in Seq(Client)
    OBVIOUS
<1>1. CASE Start
    <2>1. config' = config /\ starts' = starts + 1 /\ starts < MaxStarts
          /\ stack' = stack /\ tools' = tools /\ agentTools' = agentTools
          /\ running' = running /\ raised' = raised /\ spoiled' = spoiled
        BY <1>1 DEF Start
    <2>2. /\ stage' \in {"building", "assembling", "aborted"}
          /\ upto' \in {upto, 1}
          /\ started' \in {started, TRUE}
        BY <1>1 DEF Start
    <2>3. starts' \in 0 .. MaxStarts /\ upto' \in 0 .. Len(Enabled) + 1
        BY <1>0, <2>1, <2>2 DEF TypeOK
    <2> QED
        BY <1>0, <2>1, <2>2, <2>3 DEF TypeOK
<1>2. CASE RefuseServer
    BY <1>0, <1>2 DEF RefuseServer, TypeOK
<1>3. CASE ListToolsFails \/ StartServer
    <2>1. <<upto, starts>> \in Client /\ upto \in 1 .. Len(Enabled)
        BY <1>0, <1>3 DEF ListToolsFails, StartServer, Looping, StartIsInOrder, Client
    <2>2. /\ Append(stack, <<upto, starts>>) \in Seq(Client)
          /\ Append(tools, <<upto, starts>>) \in Seq(Client)
        BY <1>0, <2>1 DEF TypeOK
    <2>3. upto' \in 0 .. Len(Enabled) + 1
        BY <1>0, <1>3, <2>1 DEF ListToolsFails, StartServer
    <2>4. stack' \in Seq(Client) /\ tools' \in Seq(Client) /\ running' \in SUBSET Client
        BY <1>0, <1>3, <2>1, <2>2 DEF ListToolsFails, StartServer, TypeOK
    <2>5. config' = config /\ starts' = starts /\ started' = started /\ agentTools' = agentTools
          /\ raised' = raised /\ spoiled' = spoiled /\ stage' \in {stage, "aborted"}
        BY <1>3 DEF ListToolsFails, StartServer
    <2> QED
        BY <1>0, <2>3, <2>4, <2>5 DEF TypeOK
<1>4. CASE StartReturns \/ Assemble \/ AssembleRaises \/ Stop \/ StopReturns \/ Reuse
    <2>1. config' = config /\ starts' = starts /\ stack' = stack /\ running' = running
          /\ spoiled' = spoiled /\ upto' \in {upto, 0} /\ started' \in {started, TRUE, FALSE}
          /\ raised' \in {raised, FALSE} /\ tools' \in {tools, <<>>}
          /\ agentTools' \in {agentTools, tools, <<>>}
          /\ stage' \in {"assembling", "serving", "aborted", "stopping", "down", "building"}
        BY <1>4 DEF StartReturns, Assemble, AssembleRaises, Stop, StopReturns, Reuse
    <2>2. upto' \in 0 .. Len(Enabled) + 1
        BY <1>0, <2>1 DEF TypeOK
    <2> QED
        BY <1>0, <1>00, <2>1, <2>2 DEF TypeOK
<1>5. CASE CloseRaises \/ Close
    <2>1. Front(stack) \in Seq(Client)
        BY <1>0, <1>5, RangeOfFront DEF CloseRaises, Close, TypeOK
    <2> QED
        BY <1>0, <1>5, <2>1 DEF CloseRaises, Close, TypeOK
<1>6. CASE UNCHANGED vars
    BY <1>0, <1>6 DEF vars, TypeOK
<1> QED
    BY <1>1, <1>2, <1>3, <1>4, <1>5, <1>6 DEF Next, Unwind, Finished

\* Every step keeps what runs on the stack, and stop ends it.
LEMMA OrphanInvariance == IInv /\ [Next]_vars => NoOrphans' /\ StopEndsEverything'
<1> SUFFICES ASSUME IInv, [Next]_vars PROVE NoOrphans' /\ StopEndsEverything'
    OBVIOUS
<1>0. TypeOK /\ NoOrphans /\ StopEndsEverything /\ StartIsInOrder
    BY DEF IInv
<1>e. DOMAIN Enabled = 1 .. Len(Enabled) /\ Len(Enabled) \in Nat
    BY McpAssumption
<1> USE DEF NoOrphans, StopEndsEverything
<1>1. CASE Start \/ RefuseServer \/ StartReturns \/ Assemble \/ AssembleRaises \/ Stop \/ Reuse
    BY <1>0, <1>1 DEF Start, RefuseServer, StartReturns, Assemble, AssembleRaises, Stop, Reuse,
                      Looping
<1>2. CASE ListToolsFails \/ StartServer
    <2>1. stack \in Seq(Client) /\ upto \in DOMAIN Enabled /\ starts \in 1 .. MaxStarts
        BY <1>0, <1>e, <1>2 DEF TypeOK, ListToolsFails, StartServer, Looping, StartIsInOrder
    <2>10. <<upto, starts>> \in Client
        BY <2>1 DEF Client
    <2>2. Range(stack') = Range(stack) \cup {<<upto, starts>>}
        <3>1. stack' = Append(stack, <<upto, starts>>)
            BY <1>2 DEF ListToolsFails, StartServer
        <3>2. Range(Append(stack, <<upto, starts>>)) = Range(stack) \cup {<<upto, starts>>}
            BY <2>1, <2>10, RangeOfAppend
        <3> QED
            BY <3>1, <3>2
    <2> QED
        BY <1>0, <1>2, <2>2 DEF ListToolsFails, StartServer, Looping
<1>3. CASE CloseRaises \/ Close
    <2>1. stack \in Seq(Client) /\ stack # <<>>
        BY <1>0, <1>3 DEF TypeOK, CloseRaises, Close
    <2>2. Range(stack) \ {Last(stack)} \subseteq Range(stack')
        BY <1>3, <2>1, RangeOfFront DEF CloseRaises, Close
    <2> QED
        BY <1>0, <1>3, <2>2 DEF CloseRaises, Close
<1>4. CASE StopReturns
    BY <1>0, <1>4 DEF StopReturns, Range
<1>5. CASE UNCHANGED vars
    BY <1>0, <1>5 DEF vars
<1> QED
    BY <1>1, <1>2, <1>3, <1>4, <1>5 DEF Next, Unwind, Finished

\* Every step keeps the tools alive, the start loop in order and the Agent
\* equipped, as long as no stop has raised.
LEMMA ToolInvariance ==
    IInv /\ [Next]_vars => ToolsAreLive' /\ StartIsInOrder' /\ ServesEveryServer'
<1> SUFFICES ASSUME IInv, [Next]_vars
             PROVE  ToolsAreLive' /\ StartIsInOrder' /\ ServesEveryServer'
    OBVIOUS
<1>0. TypeOK /\ ToolsAreLive /\ StartIsInOrder /\ ServesEveryServer
    BY DEF IInv
<1>e. DOMAIN Enabled = 1 .. Len(Enabled) /\ Len(Enabled) \in Nat /\ MaxStarts \in Nat
      /\ upto \in 0 .. Len(Enabled) + 1 /\ starts \in 0 .. MaxStarts
    BY <1>0, McpAssumption DEF TypeOK
<1> USE DEF ToolsAreLive, StartIsInOrder, ServesEveryServer
<1>1. CASE Start
    BY <1>0, <1>e, <1>1 DEF Start, Range
<1>2. CASE RefuseServer
    BY <1>0, <1>e, <1>2 DEF RefuseServer, Looping
<1>3. CASE ListToolsFails
    BY <1>0, <1>e, <1>3 DEF ListToolsFails, Looping
<1>4. CASE StartServer
    <2>1. tools \in Seq(Client) /\ <<upto, starts>> \in Client
        BY <1>0, <1>e, <1>4 DEF TypeOK, StartServer, Looping, Client
    <2>2. Range(tools') = Range(tools) \cup {<<upto, starts>>}
        BY <1>4, <2>1, RangeOfAppend DEF StartServer
    <2>3. /\ stage = "building" /\ stage' = "building" /\ upto \in 1 .. Len(Enabled)
          /\ upto' = upto + 1 /\ starts' = starts /\ starts \in 1 .. MaxStarts
          /\ started' = started /\ raised' = raised /\ spoiled' = spoiled
          /\ running' = running \cup {<<upto, starts>>}
        BY <1>0, <1>e, <1>4 DEF StartServer, Looping
    <2>4. ToolsAreLive'
        BY <1>0, <2>2, <2>3
    <2>5. ASSUME ~spoiled, NEW i \in DOMAIN Enabled, i < upto' PROVE <<i, starts>> \in Range(tools')
        <3>1. i < upto \/ i = upto
            BY <1>e, <2>3, <2>5
        <3> QED
            BY <1>0, <2>2, <2>3, <2>5, <3>1
    <2>6. upto' > 0 /\ upto' # 0
        BY <2>3
    <2> QED
        BY <1>0, <2>3, <2>4, <2>5, <2>6
<1>5. CASE StartReturns
    <2>1. ~spoiled => \A s \in Range(Enabled) : \E c \in Range(tools) : Name(c) = s
        <3> SUFFICES ASSUME ~spoiled, NEW i \in DOMAIN Enabled
                     PROVE  \E c \in Range(tools) : Name(c) = Enabled[i]
            BY DEF Range
        <3>1. <<i, starts>> \in Range(tools)
            BY <1>0, <1>e, <1>5 DEF StartReturns
        <3> QED
            BY <3>1 DEF Name
    <2> QED
        BY <1>0, <1>e, <1>5, <2>1 DEF StartReturns
<1>6. CASE Assemble
    BY <1>0, <1>e, <1>6 DEF Assemble
<1>7. CASE AssembleRaises \/ Stop \/ CloseRaises \/ Close
    BY <1>0, <1>e, <1>7 DEF AssembleRaises, Stop, CloseRaises, Close
<1>8. CASE StopReturns
    BY <1>0, <1>e, <1>8 DEF StopReturns, Range
<1>9. CASE Reuse
    BY <1>0, <1>e, <1>9 DEF Reuse
<1>10. CASE UNCHANGED vars
    BY <1>0, <1>10 DEF vars
<1> QED
    BY <1>1, <1>2, <1>3, <1>4, <1>5, <1>6, <1>7, <1>8, <1>9, <1>10 DEF Next, Unwind, Finished

\* The invariant holds in every state of every life of the manager.
THEOREM Invariance == Spec => []IInv
<1>1. IInv /\ [Next]_vars => IInv'
    BY TypeInvariance, OrphanInvariance, ToolInvariance DEF IInv
<1> QED
    BY <1>1, InitInvariant, PTL DEF Spec

----------------------------------------------------------------------------
(***************************************************************************)
(* The properties.                                                         *)
(***************************************************************************)

\* Every variable of the manager keeps its type.
THEOREM TypeCorrect == Spec => []TypeOK
<1>1. IInv => TypeOK
    BY DEF IInv
<1> QED
    BY <1>1, Invariance, PTL

\* stop can reach every subprocess that runs.
THEOREM OrphansNever == Spec => []NoOrphans
<1>1. IInv => NoOrphans
    BY DEF IInv
<1> QED
    BY <1>1, Invariance, PTL

\* stop ends everything that start began.
THEOREM StopEnds == Spec => []StopEndsEverything
<1>1. IInv => StopEndsEverything
    BY DEF IInv
<1> QED
    BY <1>1, Invariance, PTL

\* Start is all or nothing, up to the first stop that raises.
THEOREM EveryServerServed == Spec => []ServesEveryServer
<1>1. IInv => ServesEveryServer
    BY DEF IInv
<1> QED
    BY <1>1, Invariance, PTL

\* The manager lists no tool of a server that is gone, up to then.
THEOREM ToolsLive == Spec => []ToolsAreLive
<1>1. IInv => ToolsAreLive
    BY DEF IInv
<1> QED
    BY <1>1, Invariance, PTL

----------------------------------------------------------------------------
(***************************************************************************)
(* Stopping.  Fairness is out of the provers' reach, but not what it acts  *)
(* on: stop has a finite number of steps, and the last one leaves nothing. *)
(***************************************************************************)

\* A stop takes the clients off the stack, last in, first out, and returns when
\* there is none left, with no subprocess.
Unwinds ==
    stage = "stopping" =>
        \/ stage' = "stopping" /\ stack # <<>> /\ stack' = Front(stack)
        \/ stage' = "down" /\ stack = <<>> /\ running' = {}

\* The steps it may still take.
Work == IF stage = "stopping" THEN Len(stack) + 1 ELSE 0

\* The steps of a stop, and what each of them leaves on the stack.
LEMMA StopSteps ==
    IInv /\ [Next]_vars => [Unwinds /\ (stage = "stopping" => Work' < Work)]_vars
<1> SUFFICES ASSUME IInv, [Next]_vars, vars' # vars, stage = "stopping"
             PROVE  Unwinds /\ Work' < Work
    BY DEF Unwinds
<1>1. stack \in Seq(Client) /\ Len(stack) \in Nat /\ running \subseteq Range(stack)
    BY DEF IInv, TypeOK, NoOrphans
<1>2. Unwind
    BY DEF Next, Start, RefuseServer, ListToolsFails, StartServer, StartReturns, Looping,
           Assemble, AssembleRaises, Stop, Reuse, Finished
<1>3. CASE CloseRaises \/ Close
    <2>1. stack # <<>> /\ stack' = Front(stack) /\ stage' = "stopping"
        BY <1>3 DEF CloseRaises, Close
    <2>2. Len(Front(stack)) = Len(stack) - 1
        BY <1>1, <2>1, RangeOfFront
    <2> QED
        BY <1>1, <2>1, <2>2 DEF Unwinds, Work
<1>4. CASE StopReturns
    <2>1. stack = <<>> /\ running' = running /\ stage' = "down"
        BY <1>4 DEF StopReturns
    <2>2. running = {}
        BY <1>1, <2>1 DEF Range
    <2> QED
        BY <1>1, <2>1, <2>2 DEF Unwinds, Work
<1> QED
    BY <1>2, <1>3, <1>4 DEF Unwind

\* stop unwinds in order, whichever clients raise, in a number of steps that
\* the clients on the stack bound.
THEOREM StopUnwinds == Spec => [][Unwinds /\ (stage = "stopping" => Work' < Work)]_vars
    BY StopSteps, Invariance, PTL DEF Spec
=============================================================================
