---------------------------- MODULE HpiRegisters ----------------------------
(***************************************************************************)
(* What IO_read and IO_write promise to usb.c: a call reaches the chip's   *)
(* register once and no other one, and a read returns what the register    *)
(* held at some moment of the call. The chip changes its registers when it *)
(* likes.                                                                  *)
(***************************************************************************)
CONSTANTS Addresses, Data

VARIABLES
    regs,    \* the chip's registers
    call,    \* the call in progress
    result   \* what the last read returned

vars == <<regs, call, result>>

Idle == [kind |-> "idle"]
Writing(a, d, t) == [kind |-> "write", address |-> a, data |-> d, taken |-> t]
Reading(a, s) == [kind |-> "read", address |-> a, seen |-> s]
Answered == [kind |-> "answered"]

(* The program has not set up the chip's pins, or the chip is reset. *)
Starting == [kind |-> "starting"]

Init ==
    /\ regs \in [Addresses -> Data]
    /\ call = Starting
    /\ result \in Data

Start ==
    /\ call = Starting
    /\ call' = Idle
    /\ UNCHANGED <<regs, result>>

Call ==
    /\ call = Idle
    /\ \E a \in Addresses :
           \/ \E d \in Data : call' = Writing(a, d, FALSE)
           \/ call' = Reading(a, {regs[a]})
    /\ UNCHANGED <<regs, result>>

Take ==
    /\ call.kind = "write"
    /\ ~call.taken
    /\ regs' = [regs EXCEPT ![call.address] = call.data]
    /\ call' = [call EXCEPT !.taken = TRUE]
    /\ UNCHANGED result

EndWrite ==
    /\ call.kind = "write"
    /\ call.taken
    /\ call' = Idle
    /\ UNCHANGED <<regs, result>>

Answer ==
    /\ call.kind = "read"
    /\ result' \in call.seen
    /\ call' = Answered
    /\ UNCHANGED regs

EndRead ==
    /\ call = Answered
    /\ call' = Idle
    /\ UNCHANGED <<regs, result>>

ChipChanges ==
    \E a \in Addresses, d \in Data :
        /\ regs' = [regs EXCEPT ![a] = d]
        /\ call' = IF call.kind = "read" /\ call.address = a
                   THEN [call EXCEPT !.seen = @ \cup {d}]
                   ELSE call
        /\ UNCHANGED result

Reset ==
    /\ call' = Starting
    /\ UNCHANGED <<regs, result>>

Next == Start \/ Call \/ Take \/ EndWrite \/ Answer \/ EndRead \/ ChipChanges \/ Reset

Spec == Init /\ [][Next]_vars
=============================================================================
