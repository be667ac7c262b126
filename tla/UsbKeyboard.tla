---------------------------- MODULE UsbKeyboard ----------------------------
(***************************************************************************)
(* The USB keyboard driver: usb_keyboard_run of usb_keyboard.c and the     *)
(* waits of usb.c, against the chip and the keyboard of Cy7c67200.         *)
(*                                                                         *)
(* An action is a stretch of the program between two accesses at which the *)
(* chip's progress matters: reading SIE1msg and clearing it are two        *)
(* actions, and so are looking at the status flag and sending again. The   *)
(* words of a transfer list are those of UsbTransferLists; here a list is  *)
(* its step and its first control word.                                    *)
(***************************************************************************)
EXTENDS Cy7c67200

CONSTANTS
    DETECT_LOOKS,  \* looks at the port after the first, 5 at enumeration
    POLL_LOOKS,    \* and 7 while polling
    WAIT_LIMIT,    \* reads of an empty SIE1msg before giving up, 8000
    SAME_LIMIT     \* equal messages or control words before giving up, 2000

ASSUME LimitsAssumption ==
    /\ {DETECT_LOOKS, POLL_LOOKS} \subseteq Nat
    /\ {WAIT_LIMIT, SAME_LIMIT} \subseteq Nat \ {0}

VARIABLES
    pc,        \* where the driver is
    step,      \* the enumeration step it is in, or Poll
    looks,     \* hot_plug_count
    val,       \* usb_ctl_val: the SIE1msg bits just read
    waits,     \* wait_count of UsbWaitTDListDone
    last_msg,  \* its last_msg
    last_ctl,  \* last_ctl of wait_for_td_control_done
    same,      \* same_msg_count, same_ctl_count
    keycode    \* the port to the game, *keycode_base

driverVars == <<pc, step, looks, val, waits, last_msg, last_ctl, same, keycode>>
waitVars == <<looks, val, waits, last_msg, last_ctl, same, keycode>>
vars == <<chipVars, keyboardVars, historyVars, driverVars>>

TypeOK ==
    /\ ChipTypeOK
    /\ pc \in {"start", "settle", "clear", "initWait", "resetAck", "detect",
               "removed", "send", "await", "resend", "slept",
               "drain", "drainClear", "wait", "waitClear",
               "control", "retry", "retryClear", "retryWait", "retryControl",
               "patch", "read", "look"}
    /\ step \in Steps
    /\ looks \in 0..(DETECT_LOOKS + POLL_LOOKS)
    /\ val \in Messages
    /\ waits \in 0..WAIT_LIMIT
    /\ last_msg \in Messages
    /\ last_ctl \in Controls \cup {"none"}
    /\ same \in 0..SAME_LIMIT
    /\ keycode \in Byte

Init ==
    /\ ChipInit
    /\ pc = "start"
    /\ step = SetAddress
    /\ looks = 0
    /\ val = {}
    /\ waits = 0
    /\ last_msg = {}
    /\ last_ctl = "none"
    /\ same = 0
    /\ keycode = 0

Capped(n, limit) == IF n < limit THEN n ELSE limit

----------------------------------------------------------------------------
(* Reset and set-up of the port. *)

(* UsbSoftReset writes the reset command and sleeps: the lists are gone. *)
SoftReset ==
    /\ pc = "start"
    /\ pc' = "settle"
    /\ command' = "none"
    /\ current_td' = "none"
    /\ running' = 0
    /\ UNCHANGED <<mailbox, mailbox_flag, sie1_msg, sie1_flag, td_step, td_control,
                   report, keyboardVars, historyVars, step, waitVars>>

(* The chip's BIOS leaves garbage behind after a reset (usb.c 90-92). *)
BiosGarbage ==
    /\ pc = "settle" \/ (~PROMPT /\ pc = "clear")
    /\ mailbox' \in {"ack", "junk"}
    /\ mailbox_flag' = TRUE
    /\ \E m \in SUBSET {Other} : Post(m)
    /\ UNCHANGED <<command, current_td, running, td_step, td_control, report,
                   keyboardVars, historyVars, driverVars>>

(* The mailbox, the status and SIE1msg are read to clear them. *)
ClearInterrupts ==
    /\ pc = "settle"
    /\ pc' = "clear"
    /\ mailbox_flag' = FALSE
    /\ ReadSie1Msg
    /\ UNCHANGED <<mailbox, command, sie1_msg, current_td, running, td_step,
                   td_control, report, keyboardVars, historyVars, step, waitVars>>

(* SIE1msg is emptied and the port set up: steps 1a and 1b. *)
StartSie1 ==
    /\ pc = "clear"
    /\ pc' = "initWait"
    /\ sie1_msg' = {}
    /\ command' = "init"
    /\ UNCHANGED <<mailbox, mailbox_flag, sie1_flag, current_td, running, td_step,
                   td_control, report, keyboardVars, historyVars, step, waitVars>>

StatusRaised == mailbox_flag \/ sie1_flag

(* The status is raised: the bus is reset next if the chip acknowledged,  *)
(* else everything starts again. That reading the mailbox lowers its flag *)
(* is left out here and in ResetAnswered: the flag is not looked at again *)
(* before ClearInterrupts has lowered it.                                 *)
InitAnswered ==
    /\ pc = "initWait"
    /\ StatusRaised
    /\ IF mailbox = "ack"
       THEN /\ pc' = "resetAck"
            /\ command' = "reset"
       ELSE /\ pc' = "start"
            /\ UNCHANGED command
    /\ UNCHANGED <<mailbox, mailbox_flag, sie1_msg, sie1_flag, current_td, running,
                   td_step, td_control, report, keyboardVars, historyVars, step,
                   waitVars>>

(* The mailbox is read at once, without waiting for the status. *)
ResetAnswered ==
    /\ pc = "resetAck"
    /\ pc' = IF mailbox = "ack" THEN "detect" ELSE "start"
    /\ looks' = 0
    /\ UNCHANGED <<chipVars, keyboardVars, historyVars, step, val, waits, last_msg,
                   last_ctl, same, keycode>>

----------------------------------------------------------------------------
(* Is a keyboard on the port? *)

(* Mutant: looks are counted without an end. *)
LookAtPort_NeverOut(limit) ==
    /\ IF plugged
       THEN /\ pc' = "send"
            /\ looks' = 0
       ELSE /\ pc' = pc
            /\ looks' = looks + 1
    /\ UNCHANGED <<chipVars, keyboardVars, historyVars, step, val, waits, last_msg,
                   last_ctl, same, keycode>>

(* A look at the port; after the last one that finds nothing it is out. *)
LookAtPort(limit) ==
    /\ IF plugged
       THEN /\ pc' = "send"
            /\ looks' = 0
       ELSE IF looks < limit
       THEN /\ pc' = pc
            /\ looks' = looks + 1
       ELSE /\ pc' = "removed"
            /\ looks' = 0
    /\ UNCHANGED <<chipVars, keyboardVars, historyVars, step, val, waits, last_msg,
                   last_ctl, same, keycode>>

Detect == pc = "detect" /\ LookAtPort(DETECT_LOOKS)
Look == pc = "look" /\ LookAtPort(POLL_LOOKS)

(* Mutant: the driver goes on in the step it was in. *)
Reinserted_Resumes ==
    /\ pc = "removed"
    /\ plugged
    /\ pc' = "start"
    /\ UNCHANGED <<chipVars, keyboardVars, historyVars, step, waitVars>>

(* Nothing else is done until a keyboard is there: the port to the game *)
(* keeps its value.                                                     *)
Reinserted ==
    /\ pc = "removed"
    /\ plugged
    /\ pc' = "start"
    /\ step' = SetAddress
    /\ UNCHANGED <<chipVars, keyboardVars, historyVars, waitVars>>

----------------------------------------------------------------------------
(* Sending a list and waiting for a message. *)

(* The word at 0x051e after the step's list is written. *)
LeftInReport ==
    CASE step = Poll -> report
      [] step \in {SetAddress, SetConfig, SetConfig + 1} -> <<0, 0>>
      [] OTHER -> NextPointer

WriteList ==
    /\ td_step' = step
    /\ td_control' = "active"
    /\ report' = LeftInReport
    /\ current_td' = "list"
    /\ UNCHANGED <<mailbox, mailbox_flag, command, sie1_msg, sie1_flag, running,
                   keyboardVars, swapped, step, waitVars>>

(* ConfigDesc2, the step after ConfigDesc1, sleeps 100 ms before it looks   *)
(* at the flag for the first time (359).                                    *)
Send ==
    /\ pc = "send"
    /\ pc' = IF step = ConfigDesc1 + 1 THEN "slept" ELSE "await"
    /\ WriteList
    /\ clean' = 0

(* Mutant: the loop sends again without sleeping. *)
SleptEnough_NoSleep == TRUE

(* With PROMPT the chip has ended the list, and the one it may have been at *)
(* when the list was sent again, when a sleep of 10 ms is over. A poll that *)
(* is not answered goes on.                                                 *)
SleptEnough ==
    PROMPT /\ pc = "slept" =>
        IF step = Poll THEN current_td = "none" \/ running # 0 ELSE Idle

SeeFlag ==
    /\ pc \in {"await", "slept"}
    /\ SleptEnough
    /\ pc' = IF sie1_flag THEN "drain" ELSE "resend"
    /\ UNCHANGED <<chipVars, keyboardVars, historyVars, step, waitVars>>

Resend ==
    /\ pc = "resend"
    /\ pc' = "slept"
    /\ WriteList
    /\ UNCHANGED clean

----------------------------------------------------------------------------
(* UsbWaitTDListDone. *)

ReadMessage(from, to) ==
    /\ pc = from
    /\ pc' = to
    /\ val' = sie1_msg
    /\ ReadSie1Msg
    /\ UNCHANGED <<mailbox, mailbox_flag, command, sie1_msg, current_td, running,
                   td_step, td_control, report, keyboardVars, historyVars, step,
                   looks, waits, last_msg, last_ctl, same, keycode>>

DrainRead == ReadMessage("drain", "drainClear")

(* With PROMPT every list but an unanswered poll has ended before the last *)
(* read of either limit: each read is followed by a sleep of 1 ms.         *)
WaitRead ==
    /\ PROMPT /\ (waits >= WAIT_LIMIT - 1 \/ same >= SAME_LIMIT - 1) =>
           Idle \/ step = Poll
    /\ ReadMessage("wait", "waitClear")

ListDone == val = {TDListDone}

(* What follows the wait. *)
Drained == IF step = Poll THEN "read" ELSE "control"

(* What was read is not looked at again. *)
ClearMessage ==
    /\ sie1_msg' = {}
    /\ val' = {}
    /\ UNCHANGED <<mailbox, mailbox_flag, command, sie1_flag, current_td, running,
                   td_step, td_control, report, keyboardVars, historyVars, step,
                   looks, last_ctl, keycode>>

(* The first read is not counted. last_msg starts as 0xffff. *)
DrainClear ==
    /\ pc = "drainClear"
    /\ pc' = IF ListDone THEN Drained ELSE "wait"
    /\ waits' = 0
    /\ last_msg' = {TDListDone, Other}
    /\ same' = 0
    /\ ClearMessage

(* Mutant: the waits have no limit. *)
GivesUp_Never(count, equal) == FALSE

GivesUp(count, equal) ==
    \/ val = {} /\ count >= WAIT_LIMIT
    \/ val # {} /\ equal >= SAME_LIMIT

WaitClear ==
    LET count == Capped(waits + 1, WAIT_LIMIT)
        equal == IF val = last_msg THEN Capped(same + 1, SAME_LIMIT) ELSE 0
        over == ListDone \/ GivesUp(count, equal)
    IN  /\ pc = "waitClear"
        /\ pc' = IF over THEN Drained ELSE "wait"
        /\ waits' = IF over THEN 0 ELSE count
        /\ last_msg' = IF over THEN {} ELSE val
        /\ same' = IF over THEN 0 ELSE equal
        /\ ClearMessage

----------------------------------------------------------------------------
(* The control word after the wait. *)

(* On to the next step. After the configuration descriptor the endpoint  *)
(* descriptor is patched.                                                *)
Advance ==
    /\ step' = step + 1
    /\ pc' = IF step = SetConfig - 1 THEN "patch" ELSE "send"
    /\ same' = 0
    /\ last_ctl' = "none"

Stay(next) ==
    /\ pc' = next
    /\ UNCHANGED step

ControlUnchanged ==
    UNCHANGED <<chipVars, keyboardVars, historyVars, looks, val, waits, last_msg,
                keycode>>

(* Mutant: a message is taken for success. *)
Control_Unread ==
    /\ pc = "control"
    /\ Advance
    /\ ControlUnchanged

Control ==
    /\ pc = "control"
    /\ IF td_control = "done"
       THEN Advance
       ELSE Stay("retry") /\ same' = 0 /\ last_ctl' = "none"
    /\ ControlUnchanged

(* UsbGetRetryCnt: if a done message is there, another is waited for. *)
RetryRead ==
    ReadMessage("retry", IF sie1_msg = {TDListDone} THEN "retryClear" ELSE "retryControl")

RetryClear ==
    /\ pc = "retryClear"
    /\ pc' = "retryWait"
    /\ ClearMessage
    /\ UNCHANGED <<waits, last_msg, same>>

RetryWait ==
    /\ pc = "retryWait"
    /\ sie1_flag
    /\ pc' = "retryControl"
    /\ UNCHANGED <<chipVars, keyboardVars, historyVars, step, waitVars>>

(* Mutant: the first step goes on like the late ones. *)
RetryControl_GoesOn ==
    LET equal == IF td_control = last_ctl THEN Capped(same + 1, SAME_LIMIT) ELSE 0
    IN  /\ pc = "retryControl"
        /\ IF td_control = "done" \/ equal >= SAME_LIMIT
           THEN Advance
           ELSE Stay("retry") /\ same' = equal /\ last_ctl' = td_control
        /\ ControlUnchanged

(* The first step starts everything again, steps up to ConfigDesc1 wait   *)
(* for a clean control word, the later ones give up when it is stuck      *)
(* (wait_for_td_control_done) and go on as if it were clean: with PROMPT  *)
(* the list has ended by then, since every look sleeps 1 ms.              *)
RetryControl ==
    LET equal == IF td_control = last_ctl THEN Capped(same + 1, SAME_LIMIT) ELSE 0
    IN  /\ pc = "retryControl"
        /\ CASE step = SetAddress -> Stay("start") /\ UNCHANGED <<same, last_ctl>>
             [] step # SetAddress /\ td_control = "done" -> Advance
             [] step \in DeviceDesc1..ConfigDesc1 /\ td_control # "done" ->
                    Stay("retry") /\ UNCHANGED <<same, last_ctl>>
             [] step > ConfigDesc1 /\ td_control # "done" ->
                    IF equal >= SAME_LIMIT
                    THEN (PROMPT => Idle) /\ Advance
                    ELSE Stay("retry") /\ same' = equal /\ last_ctl' = td_control
        /\ ControlUnchanged

(* The endpoint descriptor is overwritten and pointed to, like a list. *)
PatchEndpoint ==
    /\ pc = "patch"
    /\ pc' = "send"
    /\ current_td' = "endpoint"
    /\ UNCHANGED <<mailbox, mailbox_flag, command, sie1_msg, sie1_flag, running,
                   td_step, td_control, report, keyboardVars, historyVars, step,
                   waitVars>>

----------------------------------------------------------------------------
(* A report has come, or the wait for it is over. *)

(* Mutant: only the first place is looked at. *)
KeyOf_FirstPlace(word) == word[1]

KeyOf(word) == IF word[1] # 0 THEN word[1] ELSE word[2]

ReadKey ==
    /\ pc = "read"
    /\ pc' = "look"
    /\ keycode' = KeyOf(report)
    /\ looks' = 0
    /\ UNCHANGED <<chipVars, keyboardVars, historyVars, step, val, waits, last_msg,
                   last_ctl, same>>

----------------------------------------------------------------------------
Driver ==
    \/ SoftReset \/ ClearInterrupts \/ StartSie1 \/ InitAnswered \/ ResetAnswered
    \/ Detect \/ Look \/ Reinserted
    \/ Send \/ SeeFlag \/ Resend
    \/ DrainRead \/ DrainClear \/ WaitRead \/ WaitClear
    \/ Control \/ RetryRead \/ RetryClear \/ RetryWait \/ RetryControl
    \/ PatchEndpoint \/ ReadKey

(* The chip's frames are not in step with the program: one may start        *)
(* between any two of its accesses, also while it sets the pointer, looks   *)
(* at the flag and writes the list again.                                   *)
FrameStart == ChipTakes /\ UNCHANGED driverVars
ListEnds == (ChipCompletes \/ ChipFails \/ ChipSkips) /\ UNCHANGED driverVars
Chip ==
    \/ FrameStart
    \/ ListEnds
    \/ (ChipExecutes \/ ChipNaks) /\ UNCHANGED driverVars
    \/ BiosGarbage

User == (PlugIn \/ PullOut \/ PressOrRelease) /\ UNCHANGED driverVars

Next == Driver \/ Chip \/ User

Spec == Init /\ [][Next]_vars

(* A list that is sent, and sent again, before the chip takes it. *)
Untaken == current_td = "list" /\ running = 0
LookInTime == pc = "await" /\ Untaken /\ SeeFlag
ResendInTime == Untaken /\ Resend

(* The program keeps running; the chip starts frames, ends every list that *)
(* it can end, and executes commands. A frame does not start in the same   *)
(* microseconds of the program every time: they have clocks of their own.  *)
FairSpec ==
    /\ Spec
    /\ WF_vars(Driver)
    /\ SF_vars(LookInTime)
    /\ SF_vars(ResendInTime)
    /\ WF_vars(FrameStart)
    /\ WF_vars(ListEnds)
    /\ WF_vars(ChipExecutes /\ UNCHANGED driverVars)
----------------------------------------------------------------------------
(* Properties. *)

(* Past the first step the keyboard has its address, unless it was swapped *)
(* since the bus was reset: the bus reset, whose acknowledgement is not    *)
(* waited for (187), cannot come between, and neither a list of an earlier *)
(* enumeration nor a used retry passes for a clean one (254-259).          *)
AddressBeforeDescriptors ==
    step > SetAddress /\ plugged /\ ~swapped => addressed

(* A step is left only after its own list ended since the step's first     *)
(* send: cleanly, or late in the enumeration with a control word that is   *)
(* stuck. A done message left over is not enough (usb.c 525-577,           *)
(* usb_keyboard.c 64-93, 284-287). A chip that takes longer than the       *)
(* driver's sleeps may still have the list of the step before, sent again  *)
(* at 242-246, and its clean end passes for this one's; after a step that  *)
(* was given up the clean end may be older.                                *)
StepsEndCleanlyOrStuck ==
    [][step' = step + 1 =>
         \/ clean = step
         \/ step > ConfigDesc1 /\ td_control = last_ctl
                             /\ (PROMPT => td_control = "retried")
         \/ ~PROMPT /\ clean # 0 /\ (clean = step - 1 \/ step > ConfigDesc1 + 1)]_vars

(* A prompt chip runs no list but the present step's, or, in the step after *)
(* the pointer was set to it (407), the endpoint descriptor. A slower one   *)
(* is at most one list behind until the first step that can be given up:    *)
(* the control word at 0x0508 that the driver waits for is shared by all    *)
(* lists (usb_keyboard.c 257, 284-287, 311-314).                            *)
ChipKeepsUp ==
    pc # "start" =>
        IF PROMPT
        THEN running \in {0, step} \cup (IF step = SetConfig THEN {-1} ELSE {})
        ELSE step <= ConfigDesc1 + 1 => running \in {0, step - 1, step}

(* How far the present request is, how many of its makings the chip has    *)
(* still to end, and how the last one ended.                               *)
Making == pc \in {"await", "resend"}
Waiting ==
    pc \in {"slept", "drain", "drainClear", "wait", "waitClear",
           "control", "retry", "retryClear", "retryWait", "retryControl"}

Stage ==
    CASE step = Poll \/ ~(Making \/ Waiting) -> "ready"
      [] step # Poll /\ Making -> "made"
      [] step # Poll /\ Waiting -> "waiting"

Open ==
    IF Stage = "ready" THEN 0
    ELSE (IF running = step THEN 1 ELSE 0) + (IF current_td = "list" THEN 1 ELSE 0)

Outcome == IF Stage = "ready" \/ td_control = "active" THEN "none" ELSE td_control

(* With a prompt chip the driver is a host that makes its requests in      *)
(* order and waits for their ends, although the list it writes again       *)
(* (240-244) may be taken twice, the endpoint descriptor may be taken for  *)
(* a list (407), and messages are not relied on (usb.c 525-577).           *)
Host ==
    INSTANCE KeyboardHost WITH
        request <- step, stage <- Stage, open <- Open, outcome <- Outcome
HostImplemented == Host!Spec

(* The keys of a report; no key is shown as 0. *)
Pressed(r) == IF r = <<0, 0>> THEN {0} ELSE {r[1], r[2]} \ {0}

(* What the keyboard has to report while it is polled reaches the port     *)
(* although messages are overwritten, cleared between read and clear       *)
(* (usb.c 533, 546-547) or carry other bits, unless the keys change again  *)
(* or the keyboard is unplugged.                                           *)
ReportArrives ==
    \A r \in Reports :
        (fresh /\ held = r /\ step = Poll)
            ~> (keycode \in Pressed(r) \/ held # r \/ ~configured)

(* A keyboard that is pulled out while it is polled and stays out is       *)
(* noticed, wherever the poll was (577-591).                               *)
RemovalNoticed == (step = Poll /\ ~plugged) ~> (pc = "removed" \/ plugged)

(* The endpoint descriptor was taken as a list (407) and its message for   *)
(* that of the next one, so that from there on a message may be left over; *)
(* UsbGetRetryCnt finds the step's own and waits for another one (usb.c    *)
(* 585-591).                                                               *)
WaitsForNoMessage ==
    step \in SetConfig..ReportDesc /\ pc = "retryWait" /\ ~sie1_flag /\ Idle

(* A keyboard that was there at the bus reset, or comes while none is      *)
(* noticed, and stays is set up and polled, whatever happened before, but  *)
(* for that one wait.                                                      *)
KeyboardSetUp ==
    (plugged /\ ~swapped) ~>
        ((step = Poll /\ configured) \/ ~plugged \/ WaitsForNoMessage)

(* usb_keyboard.c 559: the first two keycodes are at 0x051e: the port      *)
(* shows no key or one that the keyboard reports.                          *)
PortShowsKeycodes ==
    keycode \in {0} \cup UNION {Pressed(r) : r \in Reports}
=============================================================================
