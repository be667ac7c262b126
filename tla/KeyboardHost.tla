---------------------------- MODULE KeyboardHost ----------------------------
(***************************************************************************)
(* What the keyboard driver promises to the keyboard on the port: the      *)
(* requests of the enumeration are made one after the other. A request may *)
(* be made a second time before the first making has ended or its end is   *)
(* seen, but no third time, and the next one is made only after every      *)
(* making of the last has ended. A request up to the first configuration   *)
(* descriptor must be answered, a later one may also fail; when the first  *)
(* one fails everything starts again. At the end the keyboard is polled    *)
(* until it is unplugged.                                                  *)
(***************************************************************************)
EXTENDS Integers

VARIABLES
    request,  \* the request that is to be made, or is made, or Polling
    stage,    \* "ready" before it is made, "made", or "waiting" for its end
    open,     \* how many makings have not ended
    outcome,  \* how the last making ended, "none" before an end
    plugged, addressed, configured  \* the keyboard

vars == <<request, stage, open, outcome, plugged, addressed, configured>>

SetAddress == 1
ConfigDesc1 == 4
SetConfig == 6
Polling == 10

Init ==
    /\ request = SetAddress
    /\ stage = "ready"
    /\ open = 0
    /\ outcome = "none"
    /\ plugged \in BOOLEAN
    /\ addressed = FALSE
    /\ configured = FALSE

Keyboard == <<plugged, addressed, configured>>

Make ==
    /\ request # Polling /\ stage = "ready"
    /\ stage' \in {"made", "waiting"}
    /\ open' = 1
    /\ UNCHANGED <<request, outcome, Keyboard>>

(* The second making stands beside the first one, takes its place, or comes *)
(* after its end.                                                           *)
MakeAgain ==
    /\ stage = "made"
    /\ stage' = "waiting"
    /\ open' \in {1, open + 1}
    /\ outcome' = "none"
    /\ UNCHANGED <<request, Keyboard>>

MakeNoMore ==
    /\ stage = "made"
    /\ stage' = "waiting"
    /\ UNCHANGED <<request, open, outcome, Keyboard>>

(* A keyboard without an address answers to nothing but the request that *)
(* gives it one, and with an address not to that one.                    *)
Listens == plugged /\ (request = SetAddress) = ~addressed

(* The answer may need a second attempt on the wire, which counts as a *)
(* failure.                                                            *)
Answer ==
    /\ open > 0 /\ Listens
    /\ open' = open - 1
    /\ outcome' \in {"done", "retried"}
    /\ addressed' = TRUE
    /\ configured' = (configured \/ request = SetConfig)
    /\ UNCHANGED <<request, stage, plugged>>

NoAnswer ==
    /\ open > 0 /\ ~Listens
    /\ open' = open - 1
    /\ outcome' = "retried"
    /\ UNCHANGED <<request, stage, Keyboard>>

Forget == stage' = "ready" /\ open' = 0 /\ outcome' = "none"

Proceed ==
    /\ stage = "waiting" /\ open = 0
    /\ \/ outcome = "done"
       \/ outcome = "retried" /\ request > ConfigDesc1
    /\ request' = request + 1
    /\ Forget
    /\ UNCHANGED Keyboard

StartAgain ==
    /\ \/ request = SetAddress /\ stage = "waiting" /\ open = 0 /\ outcome = "retried"
       \/ request = Polling /\ plugged
    /\ request' = SetAddress
    /\ Forget
    /\ UNCHANGED Keyboard

(* Nobody waits for the end of the bus reset: the first request may have *)
(* been made, but it is not on the bus.                                  *)
BusReset ==
    /\ request = SetAddress /\ open <= 1 /\ outcome = "none"
    /\ addressed' = FALSE
    /\ configured' = FALSE
    /\ UNCHANGED <<request, stage, open, outcome, plugged>>

PlugIn ==
    /\ ~plugged
    /\ plugged' = TRUE
    /\ UNCHANGED <<request, stage, open, outcome, addressed, configured>>

PullOut ==
    /\ plugged
    /\ plugged' = FALSE
    /\ addressed' = FALSE
    /\ configured' = FALSE
    /\ UNCHANGED <<request, stage, open, outcome>>

Next ==
    \/ Make \/ MakeAgain \/ MakeNoMore
    \/ Answer \/ NoAnswer \/ Proceed
    \/ StartAgain \/ BusReset
    \/ PlugIn \/ PullOut

Spec == Init /\ [][Next]_vars
=============================================================================
