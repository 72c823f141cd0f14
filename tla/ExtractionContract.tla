------------------------- MODULE ExtractionContract -------------------------
(***************************************************************************)
(* What a caller of ExtractionService.extract or extract_document may rely *)
(* on, without the loop: a request is refused, or it is opened and spends  *)
(* attempts from a fixed budget until it is answered or fails.  An answer  *)
(* with doubts about its fields is given on the last attempt only, and it  *)
(* names every doubt.  ExtractionLoop implements this.                     *)
(***************************************************************************)
EXTENDS Integers

CONSTANTS Doubts,       \* everything that can be wrong with an answer
          MaxAttempts   \* prompts a request may cost

VARIABLES status,   \* "new", "open", "answered" or "failed"
          budget,   \* attempts left, the running one included
          doubts,   \* what is wrong with the answer given
          flags     \* what the answer says is wrong with it

cvars == <<status, budget, doubts, flags>>

Init ==
    /\ status = "new"
    /\ budget = MaxAttempts
    /\ doubts = {} /\ flags = {}

Open ==
    /\ status = "new"
    /\ status' = "open"
    /\ UNCHANGED <<budget, doubts, flags>>

Refuse ==
    /\ status = "new"
    /\ status' = "failed"
    /\ UNCHANGED <<budget, doubts, flags>>

Reject ==
    /\ status = "open"
    /\ budget > 1
    /\ budget' = budget - 1
    /\ UNCHANGED <<status, doubts, flags>>

Answer ==
    /\ status = "open"
    /\ doubts' \in SUBSET Doubts
    /\ doubts' # {} => budget = 1
    /\ flags' = doubts'
    /\ status' = "answered"
    /\ UNCHANGED budget

GiveUp ==
    /\ status = "open"
    /\ status' = "failed"
    /\ UNCHANGED <<budget, doubts, flags>>

Next == Open \/ Refuse \/ Reject \/ Answer \/ GiveUp

Spec == Init /\ [][Next]_cvars
=============================================================================
