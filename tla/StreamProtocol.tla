--------------------------- MODULE StreamProtocol ---------------------------
(***************************************************************************)
(* What the client of POST /extract/stream may rely on, without schemas,   *)
(* texts or replies: the request is refused without a stream, or a stream  *)
(* is opened that only grows, one event at a time; it is closed by its     *)
(* only terminal event, or it breaks off with none.  StreamSession         *)
(* implements this.                                                        *)
(***************************************************************************)
EXTENDS Sequences

VARIABLES phase,   \* "waiting", "open", "told" or "broken"
          log      \* the kinds of the events received

pvars == <<phase, log>>

Init == phase = "waiting" /\ log = <<>>

Open ==
    /\ phase = "waiting"
    /\ phase' = "open"
    /\ UNCHANGED log

\* No stream is opened, or it breaks off.
Break ==
    /\ phase \in {"waiting", "open"}
    /\ phase' = "broken"
    /\ UNCHANGED log

Send ==
    /\ phase = "open"
    /\ log' = Append(log, "chunk")
    /\ UNCHANGED phase

Conclude ==
    /\ phase = "open"
    /\ \E end \in {"result", "error"} : log' = Append(log, end)
    /\ phase' = "told"

Next == Open \/ Break \/ Send \/ Conclude

Spec == Init /\ [][Next]_pvars
=============================================================================
