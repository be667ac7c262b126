------------------------- MODULE UsbKeyboardProofs -------------------------
(***************************************************************************)
(* For every set of reports, every limit of the driver's counters and      *)
(* every timing of the chip and the user: the safety properties of         *)
(* UsbKeyboard.                                                            *)
(*                                                                         *)
(* The heart is what may be pending where: no command of the set-up once   *)
(* the first step is left, no list while the port is set up. So the list   *)
(* that ends the first step is the one that gave the keyboard its address. *)
(*                                                                         *)
(* A later step shares its control word with the lists before it. Whose    *)
(* list the chip may still be at is SlowInv for any chip, and PromptInv    *)
(* and PromptPollInv for one that ends a list within the driver's sleeps.  *)
(***************************************************************************)
EXTENDS UsbKeyboard, TLAPS

(* Before the first list, and after a list is sent. *)
SettingUp == {"settle", "clear", "initWait", "resetAck", "detect"}
Checking == {"control", "retry", "retryClear", "retryWait", "retryControl"}
Sent == {"await", "resend", "slept", "drain", "drainClear", "wait", "waitClear"}
            \cup Checking

PlaceInv ==
    /\ pc \in SettingUp \cup {"start"} => step = SetAddress
    /\ pc \in Checking => step # Poll
    /\ pc \in {"read", "look"} => step = Poll
    /\ pc = "patch" => step = SetConfig

PendingInv ==
    /\ command # "none" => step = SetAddress /\ running = 0
    /\ pc \in SettingUp => running = 0 /\ current_td = "none"
    /\ pc = "send" /\ step = SetAddress => running = 0 /\ current_td = "none"

FirstListInv ==
    pc \in Sent /\ step = SetAddress =>
        /\ running \in {0, SetAddress}
        /\ current_td \in {"none", "list"}
        /\ td_step = SetAddress
        /\ td_control = "done" => command = "none" /\ (addressed \/ swapped)

AddressInv == step # SetAddress => addressed \/ swapped

CleanInv == td_control = "done" => clean # 0

(* Which list is in memory. *)
ListInv ==
    /\ pc \in Sent => td_step = step
    /\ pc = "removed" /\ step = SetAddress => running = 0 /\ current_td = "none"
    /\ pc \in {"read", "look", "removed"} /\ step = Poll => td_step = step
    /\ pc \in {"read", "look", "removed"} => step \in {SetAddress, Poll}

(* The chip may be at the list of the step before, sent once more, until it *)
(* is at this step's, and the control word is that list's until then.       *)
SlowInv ==
    step <= ConfigDesc1 + 1 =>
        /\ pc \in Sent \cup {"send"} => current_td # "endpoint"
        /\ pc \in Sent => running \in {0, step - 1, step}
        /\ pc \in Sent /\ td_control # "active" => running \in {0, step}
        /\ pc \in Sent /\ td_control = "done" => clean \in {step - 1, step}
        /\ pc = "send" => running \in {0, step - 1}
        /\ pc = "send" /\ step # SetAddress => td_step = step - 1

(* A prompt chip has the step's list, which waits, runs or has ended; in   *)
(* the step after the pointer was set to it the endpoint descriptor may be *)
(* before it.                                                              *)
Pending == current_td = "list" /\ running \in {0, -1} /\ td_control = "active"
Running == current_td = "none" /\ running = step /\ td_control = "active"
Ended == current_td = "none" /\ running = 0 /\ td_control # "active"

(* During the sleep after the list was sent again the first one may still   *)
(* run, or may have run.                                                   *)
Again ==
    /\ running \in {0, -1, step}
    /\ current_td \in {"none", "list"}
    /\ td_control = "active" => running = step \/ current_td = "list"

PromptInv ==
    PROMPT /\ step # Poll =>
        /\ pc \in Sent \ {"slept"} => Pending \/ Running \/ Ended
        /\ pc = "slept" => Again
        /\ running = -1 => step = SetConfig /\ pc \in Sent \cup {"send"}
        /\ pc \in Sent /\ td_control = "done" => clean = step
        /\ pc = "send" => running \in {0, -1} /\ current_td # "list"
        /\ pc = "send" /\ current_td = "endpoint" => step = SetConfig
        /\ pc = "patch" => running = 0 /\ current_td = "none"
        /\ pc = "start" => current_td # "endpoint"

(* A poll may be sent again while it is running. *)
PromptPollInv ==
    PROMPT /\ step = Poll =>
        /\ running \in {0, step}
        /\ current_td # "endpoint"
        /\ pc = "send" /\ current_td = "list" => td_step = step

IInv ==
    /\ TypeOK
    /\ PlaceInv /\ PendingInv /\ FirstListInv /\ AddressInv /\ CleanInv
    /\ ListInv /\ SlowInv /\ PromptInv /\ PromptPollInv

USE DEF SetAddress, DeviceDesc1, ConfigDesc1, SetConfig, ReportDesc, Poll, Steps,
        Controls, SettingUp, Checking, Sent

----------------------------------------------------------------------------
LEMMA Limits ==
    /\ DETECT_LOOKS \in Nat /\ POLL_LOOKS \in Nat
    /\ WAIT_LIMIT \in Nat \ {0} /\ SAME_LIMIT \in Nat \ {0}
BY LimitsAssumption

LEMMA InitInv == Init => IInv
<1> SUFFICES ASSUME Init PROVE IInv
  OBVIOUS
<1>1. ChipTypeOK
  BY DEF Init, ChipInit, ChipTypeOK, Messages
<1>2. TypeOK
  BY <1>1, Limits DEF Init, TypeOK, Messages, Byte
<1>3. PlaceInv /\ PendingInv /\ FirstListInv /\ AddressInv /\ CleanInv
  BY DEF Init, ChipInit, PlaceInv, PendingInv, FirstListInv, AddressInv, CleanInv
<1>4. ListInv /\ SlowInv /\ PromptInv /\ PromptPollInv
  BY DEF Init, ChipInit, ListInv, SlowInv, PromptInv, PromptPollInv
<1> QED
  BY <1>2, <1>3, <1>4 DEF IInv

LEMMA CappedType ==
    ASSUME NEW n \in Nat, NEW limit \in Nat
    PROVE  Capped(n, limit) \in 0..limit
BY DEF Capped

(* A message is a set of bits. *)
LEMMA PostedType ==
    /\ \A more \in SUBSET {Other} : more \in Messages /\ {TDListDone} \cup more \in Messages
    /\ {} \in Messages
    /\ {Other} \in Messages
    /\ {TDListDone, Other} \in Messages
BY DEF Messages

(* The bytes of a report are a keycode. *)
LEMMA KeyType ==
    ASSUME NEW word \in Reports \cup {NextPointer, <<0, 0>>}
    PROVE  KeyOf(word) \in Byte
BY ReportsAssumption DEF KeyOf, NextPointer, Byte

----------------------------------------------------------------------------
(* The types. *)

(* TypeOK in three parts: the Boolean variables are dealt with on their own. *)
BitsOK ==
    /\ mailbox_flag \in BOOLEAN
    /\ sie1_flag \in BOOLEAN
    /\ plugged \in BOOLEAN
    /\ addressed \in BOOLEAN
    /\ configured \in BOOLEAN
    /\ fresh \in BOOLEAN
    /\ swapped \in BOOLEAN

WordsOK ==
    /\ mailbox \in {"ack", "junk"}
    /\ command \in {"none", "init", "reset"}
    /\ sie1_msg \in Messages
    /\ current_td \in {"none", "list", "endpoint"}
    /\ running \in Steps \cup {0, -1}
    /\ td_step \in Steps \cup {0}
    /\ td_control \in Controls
    /\ report \in Reports \cup {NextPointer, <<0, 0>>}
    /\ held \in Reports
    /\ clean \in Steps \cup {0}

DriverOK ==
    /\ pc \in {"start", "removed", "send", "patch", "read", "look"}
                \cup SettingUp \cup Sent
    /\ step \in Steps
    /\ looks \in 0..(DETECT_LOOKS + POLL_LOOKS)
    /\ val \in Messages
    /\ waits \in 0..WAIT_LIMIT
    /\ last_msg \in Messages
    /\ last_ctl \in Controls \cup {"none"}
    /\ same \in 0..SAME_LIMIT
    /\ keycode \in Byte

LEMMA TypeParts == TypeOK <=> BitsOK /\ WordsOK /\ DriverOK
BY DEF TypeOK, ChipTypeOK, BitsOK, WordsOK, DriverOK

LEMMA BitsKept ==
    ASSUME BitsOK, Next
    PROVE  BitsOK'
<1> USE DEF BitsOK, keyboardVars, historyVars
<1>1. CASE SoftReset \/ StartSie1 \/ PatchEndpoint
  BY <1>1, Zenon DEF SoftReset, StartSie1, PatchEndpoint
<1>2. CASE ClearInterrupts
  BY <1>2, Zenon DEF ClearInterrupts, ReadSie1Msg
<1>3. CASE InitAnswered \/ ResetAnswered
  BY <1>3, Zenon DEF InitAnswered, ResetAnswered, chipVars
<1>4. CASE Detect \/ Look \/ Reinserted
  BY <1>4, Zenon DEF Detect, Look, LookAtPort, Reinserted, chipVars
<1>5. CASE Send
  BY <1>5, Zenon DEF Send, WriteList
<1>6. CASE Resend \/ SeeFlag
  BY <1>6, Zenon DEF Resend, SeeFlag, WriteList, chipVars
<1>7. CASE DrainRead \/ WaitRead \/ RetryRead
  BY <1>7, Zenon DEF DrainRead, WaitRead, RetryRead, ReadMessage, ReadSie1Msg
<1>8. CASE DrainClear \/ WaitClear \/ RetryClear
  BY <1>8, Zenon DEF DrainClear, WaitClear, RetryClear, ClearMessage
<1>9. CASE Control \/ RetryWait \/ RetryControl \/ ReadKey
  BY <1>9, Zenon DEF Control, RetryWait, RetryControl, ReadKey, ControlUnchanged, chipVars
<1>10. CASE FrameStart
  BY <1>10, Zenon DEF FrameStart, ChipTakes
<1>11. CASE ChipCompletes \/ ChipFails \/ ChipNaks
  BY <1>11, Zenon DEF ChipCompletes, ChipFails, ChipNaks, Ends, Post
<1>12. CASE ChipSkips
  BY <1>12, Zenon DEF ChipSkips, Post
<1>13. CASE ChipExecutes
  BY <1>13, Zenon DEF ChipExecutes
<1>14. CASE BiosGarbage
  BY <1>14, Zenon DEF BiosGarbage, Post
<1>15. CASE User
  BY <1>15, Zenon DEF User, PlugIn, PullOut, PressOrRelease, Post, chipVars
<1> QED
  BY <1>1, <1>2, <1>3, <1>4, <1>5, <1>6, <1>7, <1>8, <1>9, <1>10, <1>11, <1>12, <1>13,
     <1>14, <1>15
  DEF Next, Driver, Chip, ListEnds

LEMMA WordsKept ==
    ASSUME WordsOK, DriverOK, Next
    PROVE  WordsOK'
<1> USE DEF WordsOK, keyboardVars, historyVars
<1>1. CASE SoftReset \/ ClearInterrupts \/ StartSie1 \/ PatchEndpoint
  BY <1>1, PostedType DEF SoftReset, ClearInterrupts, StartSie1, PatchEndpoint
<1>2. CASE InitAnswered \/ ResetAnswered
  BY <1>2 DEF InitAnswered, ResetAnswered, chipVars
<1>3. CASE Detect \/ Look \/ Reinserted
  BY <1>3 DEF Detect, Look, LookAtPort, Reinserted, chipVars
<1>4. CASE Send \/ Resend
  <2>1. LeftInReport \in Reports \cup {NextPointer, <<0, 0>>}
    BY DEF LeftInReport
  <2>2. step \in Steps
    BY DEF DriverOK
  <2> QED
    BY <1>4, <2>1, <2>2 DEF Send, Resend, WriteList
<1>5. CASE SeeFlag \/ DrainRead \/ WaitRead \/ RetryRead
  BY <1>5 DEF SeeFlag, DrainRead, WaitRead, RetryRead, ReadMessage, chipVars
<1>6. CASE DrainClear \/ WaitClear \/ RetryClear
  BY <1>6, PostedType DEF DrainClear, WaitClear, RetryClear, ClearMessage
<1>7. CASE Control \/ RetryWait \/ RetryControl \/ ReadKey
  BY <1>7 DEF Control, RetryWait, RetryControl, ReadKey, ControlUnchanged, chipVars
<1>8. CASE FrameStart
  BY <1>8 DEF FrameStart, ChipTakes
<1>9. CASE ChipCompletes
  BY <1>9, PostedType DEF ChipCompletes, Ends, Post
<1>10. CASE ChipFails \/ ChipNaks
  BY <1>10, PostedType DEF ChipFails, ChipNaks, Ends, Post
<1>11. CASE ChipSkips
  BY <1>11, PostedType DEF ChipSkips, Post
<1>12. CASE ChipExecutes
  BY <1>12 DEF ChipExecutes
<1>13. CASE BiosGarbage
  BY <1>13, PostedType DEF BiosGarbage, Post
<1>14. CASE User
  BY <1>14, PostedType DEF User, PlugIn, PullOut, PressOrRelease, Post, chipVars
<1> QED
  BY <1>1, <1>2, <1>3, <1>4, <1>5, <1>6, <1>7, <1>8, <1>9, <1>10, <1>11, <1>12, <1>13,
     <1>14
  DEF Next, Driver, Chip, ListEnds

(* The outcomes of the retry: again, everything again, or the next step. *)
LEMMA RetryOutcomes ==
    ASSUME WordsOK, DriverOK, RetryControl
    PROVE  /\ pc = "retryControl"
           /\ ControlUnchanged
           /\ same' \in 0..SAME_LIMIT /\ last_ctl' \in Controls \cup {"none"}
           /\ \/ step' = step /\ pc' = "retry"
              \/ step' = step /\ pc' = "start" /\ step = SetAddress
              \/ /\ Advance
                 /\ step # SetAddress
                 /\ \/ td_control = "done"
                    \/ step > ConfigDesc1 /\ td_control = last_ctl /\ (PROMPT => Idle)
<1> DEFINE equal == IF td_control = last_ctl THEN Capped(same + 1, SAME_LIMIT) ELSE 0
<1>1. /\ step \in 1..10 /\ same \in 0..SAME_LIMIT /\ SAME_LIMIT \in Nat \ {0}
      /\ td_control \in Controls /\ last_ctl \in Controls \cup {"none"}
  BY Limits DEF WordsOK, DriverOK
<1>2. equal \in 0..SAME_LIMIT /\ (equal >= SAME_LIMIT => td_control = last_ctl)
  BY <1>1 DEF Capped
<1>3. /\ pc = "retryControl"
      /\ ControlUnchanged
      /\ CASE step = SetAddress -> Stay("start") /\ UNCHANGED <<same, last_ctl>>
           [] step # SetAddress /\ td_control = "done" -> Advance
           [] step \in DeviceDesc1..ConfigDesc1 /\ td_control # "done" ->
                  Stay("retry") /\ UNCHANGED <<same, last_ctl>>
           [] step > ConfigDesc1 /\ td_control # "done" ->
                  IF equal >= SAME_LIMIT
                  THEN (PROMPT => Idle) /\ Advance
                  ELSE Stay("retry") /\ same' = equal /\ last_ctl' = td_control
  BY DEF RetryControl
<1> HIDE DEF equal
<1>4. CASE step = SetAddress
  BY <1>1, <1>3, <1>4 DEF Stay, Advance
<1>5. CASE step # SetAddress /\ td_control = "done"
  BY <1>1, <1>3, <1>5 DEF Advance
<1>6. CASE step \in DeviceDesc1..ConfigDesc1 /\ td_control # "done"
  <2>1. step # SetAddress /\ ~(step > ConfigDesc1) /\ td_control # "done"
    BY <1>1, <1>6
  <2>2. Stay("retry") /\ UNCHANGED <<same, last_ctl>>
    BY <1>3, <1>6, <2>1
  <2> QED
    BY <1>1, <1>3, <2>2 DEF Stay
<1>7. CASE step > ConfigDesc1 /\ td_control # "done"
  BY <1>1, <1>2, <1>3, <1>7 DEF Stay, Advance
<1> QED
  BY <1>1, <1>4, <1>5, <1>6, <1>7

LEMMA DriverKept ==
    ASSUME WordsOK, DriverOK, PlaceInv, Next
    PROVE  DriverOK'
<1> USE DEF DriverOK
<1>1. CASE SoftReset \/ ClearInterrupts \/ StartSie1 \/ InitAnswered \/ Reinserted
               \/ PatchEndpoint
  BY <1>1
  DEF SoftReset, ClearInterrupts, StartSie1, InitAnswered, Reinserted, PatchEndpoint,
      waitVars
<1>2. CASE ResetAnswered \/ Detect \/ Look
  BY <1>2, Limits DEF ResetAnswered, Detect, Look, LookAtPort
<1>3. CASE Send \/ Resend \/ SeeFlag
  BY <1>3 DEF Send, Resend, SeeFlag, WriteList, waitVars
<1>4. CASE DrainRead \/ WaitRead \/ RetryRead
  BY <1>4 DEF WordsOK, DrainRead, WaitRead, RetryRead, ReadMessage
<1>5. CASE DrainClear \/ RetryClear
  <2>1. val' \in Messages /\ last_msg' \in Messages
    BY <1>5, PostedType DEF DrainClear, RetryClear, ClearMessage
  <2>2. waits' \in 0..WAIT_LIMIT /\ same' \in 0..SAME_LIMIT
    BY <1>5, Limits DEF DrainClear, RetryClear
  <2> QED
    BY <1>5, <2>1, <2>2 DEF DrainClear, RetryClear, ClearMessage, Drained
<1>6. CASE WaitClear
  <2>1. /\ waits' \in 0..WAIT_LIMIT
        /\ same' \in 0..SAME_LIMIT
        /\ last_msg' \in Messages /\ val' \in Messages
        /\ pc' \in {"wait", "read", "control"}
    BY <1>6, PostedType, Limits DEF WaitClear, ClearMessage, Drained, Capped
  <2> QED
    BY <1>6, <2>1 DEF WaitClear, ClearMessage
<1>7. CASE Control
  BY <1>7, Limits DEF PlaceInv, Control, Advance, Stay, ControlUnchanged
<1>8. CASE RetryWait
  BY <1>8 DEF RetryWait, waitVars
<1>9. CASE RetryControl
  BY <1>9, RetryOutcomes DEF PlaceInv, Advance, ControlUnchanged
<1>10. CASE ReadKey
  <2>1. keycode' \in Byte
    BY <1>10, KeyType DEF WordsOK, ReadKey
  <2> QED
    BY <1>10, <2>1, Limits DEF ReadKey
<1>11. CASE Chip \/ User
  <2>1. UNCHANGED driverVars
    BY <1>11 DEF Chip, FrameStart, ListEnds, BiosGarbage, User
  <2> QED
    BY <2>1 DEF driverVars
<1> QED
  BY <1>1, <1>2, <1>3, <1>4, <1>5, <1>6, <1>7, <1>8, <1>9, <1>10, <1>11 DEF Next, Driver

LEMMA TypeKept ==
    ASSUME IInv, Next
    PROVE  TypeOK'
<1>1. BitsOK /\ WordsOK /\ DriverOK
  BY TypeParts DEF IInv
<1>2. BitsOK' /\ WordsOK' /\ DriverOK'
  BY <1>1, BitsKept, WordsKept, DriverKept DEF IInv
<1> QED
  BY <1>2 DEF TypeOK, ChipTypeOK, BitsOK, WordsOK, DriverOK

----------------------------------------------------------------------------
(* What is pending where. *)

Places == PlaceInv /\ PendingInv /\ FirstListInv /\ AddressInv /\ CleanInv

LEMMA SetUpPlaces ==
    ASSUME IInv,
           SoftReset \/ ClearInterrupts \/ StartSie1 \/ InitAnswered \/ ResetAnswered
               \/ Reinserted \/ PatchEndpoint
    PROVE  Places'
<1> USE DEF IInv, Places, PlaceInv, PendingInv, FirstListInv, AddressInv, CleanInv
<1>1. CASE SoftReset \/ ClearInterrupts \/ StartSie1
  BY <1>1 DEF waitVars, keyboardVars, historyVars, SoftReset, ClearInterrupts, StartSie1
<1>2. CASE InitAnswered \/ ResetAnswered
  BY <1>2 DEF waitVars, chipVars, keyboardVars, historyVars, InitAnswered, ResetAnswered
<1>3. CASE Reinserted
  BY <1>3 DEF TypeOK, ChipTypeOK, waitVars, chipVars, keyboardVars, historyVars, Reinserted
<1>4. CASE PatchEndpoint
  BY <1>4 DEF waitVars, keyboardVars, historyVars, PatchEndpoint
<1> QED
  BY <1>1, <1>2, <1>3, <1>4

LEMMA LookPlaces ==
    ASSUME IInv, Detect \/ Look
    PROVE  Places'
BY DEF IInv, TypeOK, ChipTypeOK, Places, PlaceInv, PendingInv, FirstListInv, AddressInv,
    CleanInv, chipVars, keyboardVars, historyVars, Detect, Look, LookAtPort

LEMMA SendPlaces ==
    ASSUME IInv, Send \/ SeeFlag \/ Resend
    PROVE  Places'
BY DEF IInv, TypeOK, ChipTypeOK, Places, PlaceInv, PendingInv, FirstListInv, AddressInv,
    CleanInv, chipVars, keyboardVars, historyVars, waitVars, Send, SeeFlag, Resend, WriteList

LEMMA WaitPlaces ==
    ASSUME IInv, DrainRead \/ DrainClear \/ WaitRead \/ WaitClear \/ RetryRead \/ RetryClear
    PROVE  Places'
BY DEF IInv, TypeOK, ChipTypeOK, Places, PlaceInv, PendingInv, FirstListInv, AddressInv,
    CleanInv, keyboardVars, historyVars, DrainRead, DrainClear, WaitRead, WaitClear,
    RetryRead, RetryClear, ReadMessage, ClearMessage, Drained

LEMMA ControlPlaces ==
    ASSUME IInv, Control \/ RetryWait \/ RetryControl \/ ReadKey
    PROVE  Places'
<1> USE DEF IInv, Places, PlaceInv, PendingInv, FirstListInv, AddressInv, CleanInv,
            chipVars, keyboardVars, historyVars
<1>1. CASE Control
  BY <1>1 DEF TypeOK, Control, Advance, Stay, ControlUnchanged
<1>2. CASE RetryWait
  BY <1>2 DEF RetryWait, waitVars
<1>3. CASE RetryControl
  <2>1. CASE step' = step
    BY <1>3, <2>1, RetryOutcomes, TypeParts DEF Advance, ControlUnchanged
  <2>2. CASE Advance
    <3>1. /\ step \in 2..10 /\ step' = step + 1 /\ pc' \in {"patch", "send"}
          /\ pc' = "patch" => step' = SetConfig
      BY <1>3, <2>2, RetryOutcomes, TypeParts DEF Advance, DriverOK
    <3>2. UNCHANGED <<chipVars, historyVars, keyboardVars>>
      BY <1>3, RetryOutcomes, TypeParts DEF ControlUnchanged
    <3>3. PlaceInv'
      BY <3>1
    <3>4. PendingInv' /\ FirstListInv'
      BY <3>1, <3>2
    <3>5. AddressInv' /\ CleanInv'
      BY <3>1, <3>2
    <3> QED
      BY <3>3, <3>4, <3>5
  <2> QED
    BY <1>3, <2>1, <2>2, RetryOutcomes, TypeParts
<1>4. CASE ReadKey
  BY <1>4 DEF ReadKey
<1> QED
  BY <1>1, <1>2, <1>3, <1>4

LEMMA ChipPlaces ==
    ASSUME IInv, Chip
    PROVE  Places'
<1>1. CASE FrameStart
  BY <1>1
  DEF IInv, TypeOK, ChipTypeOK, Places, PlaceInv, PendingInv, FirstListInv, AddressInv,
      CleanInv, FrameStart, ChipTakes, driverVars, keyboardVars, historyVars
<1>2. CASE ListEnds \/ (ChipNaks /\ UNCHANGED driverVars)
  <2> USE DEF Places, PlaceInv, PendingInv, FirstListInv, AddressInv, CleanInv, driverVars
  <2>1. CASE ChipCompletes /\ UNCHANGED driverVars
    <3>1. /\ running \in Steps /\ running' = 0
          /\ UNCHANGED <<command, current_td, td_step, swapped, pc, step>>
      BY <2>1 DEF ChipCompletes, Ends
    <3>2. addressed'
      BY <2>1 DEF ChipCompletes
    <3>3. PlaceInv' /\ PendingInv'
      BY <3>1 DEF IInv
    <3>4. FirstListInv'
      BY <3>1, <3>2 DEF IInv
    <3>5. AddressInv'
      BY <3>2
    <3>6. CleanInv'
      BY <2>1 DEF ChipCompletes, Ends
    <3> QED
      BY <3>3, <3>4, <3>5, <3>6
  <2>2. CASE (ChipFails \/ ChipNaks) /\ UNCHANGED driverVars
    BY <2>2 DEF IInv, TypeOK, ChipTypeOK, ChipFails, ChipNaks, Ends
  <2>3. CASE ChipSkips /\ UNCHANGED driverVars
    BY <2>3 DEF IInv, TypeOK, ChipTypeOK, ChipSkips, keyboardVars, historyVars
  <2> QED
    BY <1>2, <2>1, <2>2, <2>3 DEF ListEnds
<1>3. CASE ChipExecutes /\ UNCHANGED driverVars
  BY <1>3
  DEF IInv, TypeOK, ChipTypeOK, Places, PlaceInv, PendingInv, FirstListInv, AddressInv,
      CleanInv, ChipExecutes, driverVars
<1>4. CASE BiosGarbage
  BY <1>4
  DEF IInv, TypeOK, ChipTypeOK, Places, PlaceInv, PendingInv, FirstListInv, AddressInv,
      CleanInv, BiosGarbage, driverVars, keyboardVars, historyVars
<1> QED
  BY <1>1, <1>2, <1>3, <1>4 DEF Chip

LEMMA UserPlaces ==
    ASSUME IInv, User
    PROVE  Places'
BY DEF IInv, TypeOK, ChipTypeOK, Places, PlaceInv, PendingInv, FirstListInv, AddressInv,
    CleanInv, User, PlugIn, PullOut, PressOrRelease, chipVars, driverVars, keyboardVars,
    historyVars

----------------------------------------------------------------------------
(* Whose list the chip is at. *)

Order == ListInv /\ SlowInv /\ PromptInv /\ PromptPollInv

LEMMA StepRange ==
    ASSUME IInv
    PROVE  /\ step \in 1..10 /\ td_step \in 0..10 /\ running \in -1..10
           /\ td_control \in Controls
           /\ current_td \in {"none", "list", "endpoint"}
BY DEF IInv, TypeOK, ChipTypeOK

LEMMA SetUpOrder ==
    ASSUME IInv,
           SoftReset \/ ClearInterrupts \/ StartSie1 \/ InitAnswered \/ ResetAnswered
               \/ Reinserted \/ PatchEndpoint
    PROVE  Order'
<1> USE DEF IInv, Order, ListInv, SlowInv, PromptInv, PromptPollInv, PlaceInv
<1>1. CASE SoftReset \/ ClearInterrupts \/ StartSie1
  BY <1>1 DEF SoftReset, ClearInterrupts, StartSie1
<1>2. CASE InitAnswered \/ ResetAnswered
  BY <1>2 DEF InitAnswered, ResetAnswered, PendingInv, chipVars, historyVars
<1>3. CASE Reinserted
  BY <1>3, StepRange DEF Reinserted, chipVars, historyVars
<1>4. CASE PatchEndpoint
  BY <1>4 DEF PatchEndpoint
<1> QED
  BY <1>1, <1>2, <1>3, <1>4

LEMMA LookOrder ==
    ASSUME IInv, Detect \/ Look
    PROVE  Order'
<1>1. /\ UNCHANGED <<running, current_td, td_step, td_control, clean, step>>
      /\ pc' \in {"send", "removed", pc}
  BY DEF Detect, Look, LookAtPort, chipVars, historyVars
<1>2. CASE Detect
  <2>1. pc = "detect" /\ step = SetAddress
    BY <1>2 DEF Detect, IInv, PlaceInv
  <2> QED
    BY <1>1, <2>1
    DEF IInv, PendingInv, Order, ListInv, SlowInv, PromptInv, PromptPollInv
<1>3. CASE Look
  <2>1. pc = "look" /\ step = Poll
    BY <1>3 DEF Look, IInv, PlaceInv
  <2> QED
    BY <1>1, <2>1 DEF IInv, Order, ListInv, SlowInv, PromptInv, PromptPollInv
<1> QED
  BY <1>2, <1>3

LEMMA SendOrder ==
    ASSUME IInv, Send \/ SeeFlag \/ Resend
    PROVE  Order'
<1> USE StepRange DEF IInv, Order, ListInv, SlowInv, PromptInv, PromptPollInv,
                      Pending, Running, Ended, Again
<1>1. CASE Send
  <2>1. /\ pc = "send" /\ pc' \in {"await", "slept"}
        /\ td_step' = step /\ td_control' = "active" /\ current_td' = "list"
        /\ UNCHANGED <<running, step>>
    BY <1>1 DEF Send, WriteList
  <2>2. step = SetAddress => running = 0
    BY <2>1 DEF PendingInv
  <2> QED
    BY <2>1, <2>2
<1>2. CASE SeeFlag
  <2>1. /\ pc \in {"await", "slept"} /\ pc' \in {"drain", "resend"}
        /\ PROMPT /\ pc = "slept" /\ step # Poll => Idle
        /\ UNCHANGED <<running, current_td, td_step, td_control, clean, step>>
    BY <1>2 DEF SeeFlag, SleptEnough, chipVars, historyVars
  <2> QED
    BY <2>1 DEF Idle
<1>3. CASE Resend
  <2>1. /\ pc = "resend" /\ pc' = "slept"
        /\ td_step' = step /\ td_control' = "active" /\ current_td' = "list"
        /\ UNCHANGED <<running, step, clean>>
    BY <1>3 DEF Resend, WriteList
  <2> QED
    BY <2>1
<1> QED
  BY <1>1, <1>2, <1>3

LEMMA WaitOrder ==
    ASSUME IInv, DrainRead \/ DrainClear \/ WaitRead \/ WaitClear \/ RetryRead \/ RetryClear
    PROVE  Order'
<1>1. /\ UNCHANGED <<running, current_td, td_step, td_control, clean, step>>
      /\ pc \in Sent \ {"slept"}
      /\ pc' \in (Sent \ {"slept"}) \cup {"read"}
      /\ pc' = "read" => step = Poll
  BY DEF historyVars, DrainRead, DrainClear, WaitRead, WaitClear, RetryRead, RetryClear,
         ReadMessage, ClearMessage, Drained
<1> QED
  BY <1>1
  DEF IInv, Order, ListInv, SlowInv, PromptInv, PromptPollInv, Pending, Running, Ended, Again

(* The next step begins with the lists as they are. *)
LEMMA AdvanceOrder ==
    ASSUME IInv, Advance, pc \in Checking,
           UNCHANGED <<running, current_td, td_step, td_control, clean>>,
           \/ td_control = "done"
           \/ step > ConfigDesc1 /\ (PROMPT => Idle)
    PROVE  Order'
<1>1. /\ step' = step + 1 /\ pc' \in {"send", "patch"} /\ step # Poll
      /\ pc' = "patch" => step' = SetConfig
  BY DEF IInv, PlaceInv, Advance
<1>2. PROMPT => running = 0 /\ current_td = "none"
  BY <1>1 DEF IInv, PromptInv, Pending, Running, Ended, Again, Idle
<1>3. step' <= ConfigDesc1 + 1 =>
          running \in {0, step} /\ td_step = step /\ current_td # "endpoint"
  BY <1>1, StepRange DEF IInv, ListInv, SlowInv
<1> QED
  BY <1>1, <1>2, <1>3, StepRange DEF Order, ListInv, SlowInv, PromptInv, PromptPollInv

LEMMA ControlOrder ==
    ASSUME IInv, Control \/ RetryWait \/ RetryControl \/ ReadKey
    PROVE  Order'
<1> USE DEF chipVars, historyVars
<1>1. CASE Control
  <2>1. /\ UNCHANGED <<running, current_td, td_step, td_control, clean>>
        /\ pc = "control"
        /\ (Advance /\ td_control = "done") \/ (step' = step /\ pc' = "retry")
    BY <1>1 DEF Control, Stay, ControlUnchanged
  <2>2. CASE Advance /\ td_control = "done"
    BY <2>1, <2>2, AdvanceOrder
  <2>3. CASE step' = step /\ pc' = "retry"
    BY <2>1, <2>3
    DEF IInv, Order, ListInv, SlowInv, PromptInv, PromptPollInv, Pending, Running, Ended, Again
  <2> QED
    BY <2>1, <2>2, <2>3
<1>2. CASE RetryWait
  BY <1>2
  DEF RetryWait, IInv, Order, ListInv, SlowInv, PromptInv, PromptPollInv, Pending,
      Running, Ended, Again
<1>3. CASE RetryControl
  <2>1. /\ UNCHANGED <<running, current_td, td_step, td_control, clean>>
        /\ pc = "retryControl"
        /\ \/ step' = step /\ pc' = "retry"
           \/ step' = step /\ pc' = "start" /\ step = SetAddress
           \/ /\ Advance
              /\ td_control = "done" \/ (step > ConfigDesc1 /\ (PROMPT => Idle))
    BY <1>3, RetryOutcomes, TypeParts DEF IInv, ControlUnchanged
  <2>2. CASE step' = step /\ pc' = "retry"
    BY <2>1, <2>2
    DEF IInv, Order, ListInv, SlowInv, PromptInv, PromptPollInv, Pending, Running, Ended, Again
  <2>3. CASE step' = step /\ pc' = "start" /\ step = SetAddress
    <3>1. PROMPT => running # -1 /\ current_td # "endpoint"
      BY <2>1, <2>3 DEF IInv, PromptInv, Pending, Running, Ended
    <3> QED
      BY <2>1, <2>3, <3>1 DEF Order, ListInv, SlowInv, PromptInv, PromptPollInv
  <2>4. CASE Advance /\ (td_control = "done" \/ (step > ConfigDesc1 /\ (PROMPT => Idle)))
    BY <2>1, <2>4, AdvanceOrder
  <2> QED
    BY <2>1, <2>2, <2>3, <2>4
<1>4. CASE ReadKey
  <2>1. /\ UNCHANGED <<running, current_td, td_step, td_control, clean, step>>
        /\ pc = "read" /\ pc' = "look" /\ step = Poll
    BY <1>4 DEF ReadKey, IInv, PlaceInv
  <2> QED
    BY <2>1 DEF IInv, Order, ListInv, SlowInv, PromptInv, PromptPollInv
<1> QED
  BY <1>1, <1>2, <1>3, <1>4

(* The end of a list. *)
LEMMA EndOrder ==
    ASSUME IInv, running \in Steps, running' = 0, UNCHANGED <<current_td, td_step, pc, step>>,
           \/ td_control' = "retried" /\ clean' = clean
           \/ td_control' = "done" /\ clean' = running
    PROVE  Order'
<1>1. ListInv'
  BY DEF IInv, ListInv
<1>2. SlowInv'
  <2>1. SUFFICES ASSUME step <= ConfigDesc1 + 1 PROVE SlowInv'
    BY DEF SlowInv
  <2>2. pc \in Sent => running \in {step - 1, step}
    BY <2>1, StepRange DEF IInv, SlowInv
  <2> QED
    BY <2>1, <2>2, StepRange DEF IInv, SlowInv
<1>3. PromptInv'
  BY StepRange DEF IInv, PromptInv, Pending, Running, Ended, Again
<1>4. PromptPollInv'
  BY DEF IInv, PromptPollInv
<1> QED
  BY <1>1, <1>2, <1>3, <1>4 DEF Order

LEMMA ChipOrder ==
    ASSUME IInv, Chip
    PROVE  Order'
<1>1. CASE FrameStart
  <2>1. /\ running = 0 /\ current_td # "none" /\ current_td' = "none"
        /\ running' = IF current_td = "endpoint" THEN -1 ELSE td_step
        /\ UNCHANGED <<td_step, td_control, clean, step, pc>>
    BY <1>1 DEF FrameStart, ChipTakes, historyVars, driverVars
  <2>2. pc \notin SettingUp
    BY <2>1 DEF IInv, PendingInv
  <2>3. ListInv'
    BY <2>1 DEF IInv, ListInv
  <2>4. SlowInv'
    BY <2>1, StepRange DEF IInv, ListInv, SlowInv, PendingInv
  <2>5. PromptInv'
    <3> SUFFICES ASSUME PROMPT, step # Poll PROVE PromptInv'
      BY <2>1 DEF PromptInv
    <3>1. CASE pc \in Sent
      <4>1. td_step = step /\ current_td = "list" /\ running' = step
        BY <2>1, <3>1 DEF IInv, ListInv, PromptInv, Pending, Running, Ended, Again
      <4>2. step # -1 /\ td_control' = td_control /\ pc' = pc /\ step' = step
        BY <2>1, StepRange
      <4>3. td_control = "done" => clean' = step'
        BY <2>1, <3>1 DEF IInv, PromptInv
      <4>4. pc # "slept" => td_control = "active"
        BY <2>1, <3>1, <4>1 DEF IInv, PromptInv, Pending, Running, Ended
      <4> QED
        BY <2>1, <3>1, <4>1, <4>2, <4>3, <4>4 DEF PromptInv, Running, Again
    <3>2. CASE pc \notin Sent
      <4>1. pc \in {"start", "removed", "send", "patch", "read", "look"}
        BY <2>2, <3>2, TypeParts DEF IInv, DriverOK
      <4>2. CASE pc = "send"
        BY <2>1, <4>2, StepRange DEF IInv, PromptInv
      <4>3. CASE pc = "start"
        BY <2>1, <4>3, StepRange DEF IInv, PromptInv
      <4>4. pc \notin {"removed", "patch", "read", "look"}
        BY <2>1 DEF IInv, PlaceInv, ListInv, PromptInv
      <4> QED
        BY <4>1, <4>2, <4>3, <4>4
    <3> QED
      BY <3>1, <3>2
  <2>6. PromptPollInv'
    <3>1. SUFFICES ASSUME PROMPT, step = Poll PROVE PromptPollInv'
      BY <2>1 DEF PromptPollInv
    <3>2. pc \in Sent \cup {"send", "read", "look", "removed"}
      BY <2>1, <2>2, <3>1, TypeParts DEF IInv, DriverOK, PlaceInv
    <3>3. running' = Poll
      <4>1. current_td = "list"
        BY <2>1, <3>1, StepRange DEF IInv, PromptPollInv
      <4>2. td_step = Poll
        BY <3>1, <3>2, <4>1 DEF IInv, ListInv, PromptPollInv
      <4> QED
        BY <2>1, <4>1, <4>2
    <3> QED
      BY <2>1, <3>1, <3>2, <3>3 DEF PromptPollInv
  <2> QED
    BY <2>3, <2>4, <2>5, <2>6 DEF Order
<1>2. CASE (ChipCompletes \/ ChipFails \/ ChipNaks) /\ UNCHANGED driverVars
  <2>1. /\ running \in Steps /\ running' = 0
        /\ UNCHANGED <<current_td, td_step, pc, step>>
        /\ \/ td_control' = "retried" /\ clean' = clean
           \/ td_control' = "done" /\ clean' = running
    BY <1>2 DEF ChipCompletes, ChipFails, ChipNaks, Naks, Ends, driverVars
  <2> QED
    BY <2>1, EndOrder
<1>3. CASE ChipSkips /\ UNCHANGED driverVars
  <2>1. /\ running = -1 /\ running' = 0
        /\ UNCHANGED <<current_td, td_step, td_control, clean, pc, step>>
    BY <1>3 DEF ChipSkips, historyVars, driverVars
  <2> QED
    BY <2>1, StepRange
    DEF IInv, Order, ListInv, SlowInv, PromptInv, PromptPollInv, Pending, Running, Ended, Again
<1>4. CASE (ChipExecutes /\ UNCHANGED driverVars) \/ BiosGarbage
  <2>1. UNCHANGED <<running, current_td, td_step, td_control, clean, pc, step>>
    BY <1>4 DEF ChipExecutes, BiosGarbage, historyVars, driverVars
  <2> QED
    BY <2>1
    DEF IInv, Order, ListInv, SlowInv, PromptInv, PromptPollInv, Pending, Running, Ended, Again
<1> QED
  BY <1>1, <1>2, <1>3, <1>4 DEF Chip, ListEnds

LEMMA StillOrder ==
    ASSUME IInv, User \/ UNCHANGED vars
    PROVE  Order'
<1>1. UNCHANGED <<running, current_td, td_step, td_control, clean, pc, step>>
  BY DEF User, PlugIn, PullOut, PressOrRelease, vars, chipVars, historyVars, driverVars
<1> QED
  BY <1>1
  DEF IInv, Order, ListInv, SlowInv, PromptInv, PromptPollInv, Pending, Running, Ended, Again

----------------------------------------------------------------------------
LEMMA NextInv == IInv /\ [Next]_vars => IInv'
<1> SUFFICES ASSUME IInv, [Next]_vars
             PROVE  TypeOK' /\ Places' /\ Order'
  BY DEF IInv, Places, Order
<1>1. CASE Driver
  BY <1>1, TypeKept, SetUpPlaces, LookPlaces, SendPlaces, WaitPlaces,
     ControlPlaces, SetUpOrder, LookOrder, SendOrder, WaitOrder, ControlOrder
  DEF Driver, Next
<1>2. CASE Chip
  BY <1>2, TypeKept, ChipPlaces, ChipOrder DEF Next
<1>3. CASE User
  BY <1>3, TypeKept, UserPlaces, StillOrder DEF Next
<1>4. CASE UNCHANGED vars
  BY <1>4, StillOrder
  DEF IInv, TypeOK, ChipTypeOK, Places, PlaceInv, PendingInv, FirstListInv, AddressInv,
      CleanInv, vars, chipVars, driverVars, keyboardVars, historyVars
<1> QED
  BY <1>1, <1>2, <1>3, <1>4 DEF Next

LEMMA Invariant == Spec => []IInv
BY InitInv, NextInv, PTL DEF Spec

----------------------------------------------------------------------------
(* The properties. *)

(* No counter of the driver passes its limit, and no step is past polling. *)
THEOREM TypeCorrect == Spec => []TypeOK
<1>1. IInv => TypeOK
  BY DEF IInv
<1> QED
  BY <1>1, Invariant, PTL

(* No descriptor is asked of a keyboard without an address (187, 254-259). *)
THEOREM AddressedFirst == Spec => []AddressBeforeDescriptors
<1>1. IInv => AddressBeforeDescriptors
  BY DEF IInv, AddressInv, AddressBeforeDescriptors
<1> QED
  BY <1>1, Invariant, PTL

(* A prompt chip is at the present list, or in the step after the endpoint *)
(* descriptor was pointed to (407) at that; a slow one may also be at the  *)
(* list before until the first step that can be given up.                  *)
THEOREM KeepsUp == Spec => []ChipKeepsUp
<1>1. IInv => ChipKeepsUp
  <2> SUFFICES ASSUME IInv, pc # "start"
               PROVE  IF PROMPT
                      THEN running \in {0, step}
                               \cup (IF step = SetConfig THEN {-1} ELSE {})
                      ELSE step <= ConfigDesc1 + 1 => running \in {0, step - 1, step}
    BY DEF ChipKeepsUp
  <2>1. pc \in {"removed", "send", "patch", "read", "look"} \cup SettingUp \cup Sent
    BY TypeParts DEF IInv, DriverOK
  <2>2. PROMPT => running \in {0, step} \/ (running = -1 /\ step = SetConfig)
    BY <2>1
    DEF IInv, PlaceInv, PendingInv, ListInv, PromptInv, PromptPollInv, Pending, Running,
        Ended, Again
  <2>3. step <= ConfigDesc1 + 1 => running \in {0, step - 1, step}
    BY <2>1 DEF IInv, PlaceInv, PendingInv, ListInv, SlowInv
  <2> QED
    BY <2>2, <2>3
<1> QED
  BY <1>1, Invariant, PTL

(* Only the control word of its list ends a step. *)
LEMMA StepsAdvance ==
    ASSUME IInv, Next, step' = step + 1
    PROVE  /\ pc \in Checking
           /\ \/ td_control = "done"
              \/ /\ step > ConfigDesc1 /\ td_control = last_ctl
                 /\ PROMPT => Idle
<1>1. step \in Steps
  BY DEF IInv, TypeOK
<1>2. Control \/ RetryControl
  <2>1. ASSUME Chip \/ User PROVE FALSE
    BY <1>1, <2>1
    DEF Chip, User, FrameStart, ListEnds, BiosGarbage, driverVars
  <2>2. ASSUME SoftReset \/ ClearInterrupts \/ StartSie1 \/ InitAnswered
                   \/ ResetAnswered \/ Detect \/ Look \/ Reinserted
        PROVE FALSE
    BY <1>1, <2>2
    DEF SoftReset, ClearInterrupts, StartSie1, InitAnswered, ResetAnswered, Detect, Look,
        LookAtPort, Reinserted
  <2>3. ASSUME Send \/ SeeFlag \/ Resend \/ PatchEndpoint \/ ReadKey PROVE FALSE
    BY <1>1, <2>3 DEF Send, SeeFlag, Resend, WriteList, PatchEndpoint, ReadKey
  <2>4. ASSUME DrainRead \/ DrainClear \/ WaitRead \/ WaitClear \/ RetryRead
                   \/ RetryClear \/ RetryWait
        PROVE FALSE
    BY <1>1, <2>4
    DEF DrainRead, DrainClear, WaitRead, WaitClear, ReadMessage, ClearMessage, RetryRead,
        RetryClear, RetryWait
  <2> QED
    BY <2>1, <2>2, <2>3, <2>4 DEF Next, Driver
<1>3. CASE Control
  BY <1>1, <1>3 DEF Control, Stay
<1>4. CASE RetryControl
  BY <1>1, <1>4, RetryOutcomes, TypeParts DEF IInv
<1> QED
  BY <1>2, <1>3, <1>4

(* A step is left on the clean end of its own list, or when its control    *)
(* word is stuck; with a slow chip also on the clean end of an older list. *)
THEOREM StepsEnd == Spec => StepsEndCleanlyOrStuck
<1> DEFINE Left ==
        \/ clean = step
        \/ step > ConfigDesc1 /\ td_control = last_ctl
                            /\ (PROMPT => td_control = "retried")
        \/ ~PROMPT /\ clean # 0 /\ (clean = step - 1 \/ step > ConfigDesc1 + 1)
<1>1. IInv /\ [Next]_vars => (step' = step + 1 => Left)
  <2> SUFFICES ASSUME IInv, Next, step' = step + 1
               PROVE  Left
    BY DEF vars, driverVars, IInv, TypeOK
  <2>1. pc \in Sent /\ step # Poll
    BY StepsAdvance DEF IInv, PlaceInv
  <2>2. CASE td_control = "done"
    <3>1. clean # 0 /\ (PROMPT => clean = step)
      BY <2>1, <2>2 DEF IInv, CleanInv, PromptInv
    <3>2. step <= ConfigDesc1 + 1 => clean \in {step - 1, step}
      BY <2>1, <2>2 DEF IInv, SlowInv
    <3> QED
      BY <3>1, <3>2, StepRange
  <2>3. CASE td_control # "done"
    <3>1. step > ConfigDesc1 /\ td_control = last_ctl
      BY <2>3, StepsAdvance
    <3>2. PROMPT => td_control = "retried"
      BY <2>1, <2>3, StepsAdvance, StepRange
      DEF IInv, PromptInv, Idle, Pending, Running, Ended, Again
    <3> QED
      BY <3>1, <3>2
  <2> QED
    BY <2>2, <2>3
<1> QED
  BY <1>1, Invariant, PTL DEF Spec, StepsEndCleanlyOrStuck

----------------------------------------------------------------------------
(* A prompt chip and the requests of KeyboardHost. *)

(* The end of a list raises the flag during the sleep, a wait is given up   *)
(* only after the list's end, and so is the first step; no request is under *)
(* way while a command is pending.                                          *)
HostInv ==
    PROMPT /\ step # Poll =>
        /\ pc = "slept" /\ td_control # "active" => sie1_flag
        /\ pc \in Sent /\ command # "none" => td_control = "active"
        /\ pc = "waitClear" /\ (waits >= WAIT_LIMIT - 1 \/ same >= SAME_LIMIT - 1) =>
               td_control # "active"
        /\ step = SetAddress /\ pc \in Checking => td_control # "active"
        /\ step = SetAddress /\ pc \in Checking \ {"control"} => td_control = "retried"

(* No done message is left over for the first list; when it is sent again, *)
(* the end of its first run is over with the sleep that follows.           *)
MessageInv ==
    PROMPT /\ step = SetAddress =>
        /\ pc \in {"initWait", "resetAck", "detect", "send"} => TDListDone \notin sie1_msg
        /\ pc \in Sent \ {"slept"} /\ td_control = "active" =>
               /\ TDListDone \notin sie1_msg
               /\ pc \in {"drainClear", "waitClear"} => TDListDone \notin val

(* Before the reset the chip may still be at a poll. *)
StartInv ==
    PROMPT /\ pc = "start" =>
        /\ running \in {0, Poll}
        /\ current_td # "none" => current_td = "list" /\ td_step = Poll

RequestInv == HostInv /\ MessageInv /\ StartInv

LEMMA InitRequest == Init => RequestInv
BY DEF Init, ChipInit, RequestInv, HostInv, MessageInv, StartInv

LEMMA SetUpRequest ==
    ASSUME IInv, RequestInv,
           SoftReset \/ ClearInterrupts \/ StartSie1 \/ InitAnswered \/ ResetAnswered
               \/ Detect \/ Look \/ Reinserted \/ PatchEndpoint
    PROVE  RequestInv'
<1> USE DEF IInv, PlaceInv, RequestInv, HostInv, MessageInv, StartInv
<1>1. CASE SoftReset \/ ClearInterrupts \/ StartSie1
  BY <1>1 DEF SoftReset, ClearInterrupts, StartSie1
<1>2. CASE InitAnswered \/ ResetAnswered
  BY <1>2 DEF InitAnswered, ResetAnswered, PendingInv, chipVars
<1>3. CASE Detect \/ Look
  BY <1>3 DEF Detect, Look, LookAtPort, chipVars
<1>4. CASE Reinserted
  BY <1>4, StepRange DEF Reinserted, ListInv, PromptPollInv, chipVars
<1>5. CASE PatchEndpoint
  BY <1>5 DEF PatchEndpoint
<1> QED
  BY <1>1, <1>2, <1>3, <1>4, <1>5

LEMMA SendRequest ==
    ASSUME IInv, RequestInv, Send \/ SeeFlag \/ Resend
    PROVE  RequestInv'
<1> USE DEF RequestInv, HostInv, MessageInv, StartInv
<1>1. CASE Send
  BY <1>1 DEF Send, WriteList
<1>2. CASE SeeFlag
  <2>1. /\ pc \in {"await", "slept"} /\ pc' = IF sie1_flag THEN "drain" ELSE "resend"
        /\ UNCHANGED <<td_control, command, sie1_msg, step>>
    BY <1>2 DEF SeeFlag, chipVars
  <2>2. PROMPT /\ pc = "slept" /\ step # Poll => td_control # "active"
    BY <1>2, StepRange DEF SeeFlag, SleptEnough, IInv, PromptInv, Again, Idle
  <2> QED
    BY <2>1, <2>2
<1>3. CASE Resend
  BY <1>3 DEF Resend, WriteList
<1> QED
  BY <1>1, <1>2, <1>3

(* A message that is read: the first list has ended if it is a done one, *)
(* and any list at a limit.                                              *)
LEMMA ReadRequest ==
    ASSUME IInv, RequestInv, DrainRead \/ WaitRead \/ RetryRead
    PROVE  RequestInv'
<1>1. /\ val' = sie1_msg
      /\ UNCHANGED <<td_control, command, sie1_msg, step, waits, same>>
      /\ \/ pc = "drain" /\ pc' = "drainClear"
         \/ pc = "wait" /\ pc' = "waitClear"
         \/ pc = "retry" /\ pc' \in {"retryClear", "retryControl"}
  BY DEF DrainRead, WaitRead, RetryRead, ReadMessage
<1>2. ASSUME PROMPT, step # Poll, pc = "wait",
             waits >= WAIT_LIMIT - 1 \/ same >= SAME_LIMIT - 1
      PROVE  td_control # "active"
  <2>1. WaitRead
    BY <1>2 DEF DrainRead, RetryRead, ReadMessage
  <2>2. Idle
    BY <1>2, <2>1 DEF WaitRead
  <2> QED
    BY <1>2, <2>2, StepRange DEF IInv, PromptInv, Pending, Running, Ended, Again, Idle
<1>3. MessageInv'
  BY <1>1 DEF RequestInv, MessageInv
<1>4. HostInv'
  BY <1>1, <1>2 DEF RequestInv, HostInv
<1> QED
  BY <1>1, <1>3, <1>4 DEF RequestInv, StartInv

LEMMA ClearRequest ==
    ASSUME IInv, RequestInv, DrainClear \/ WaitClear \/ RetryClear
    PROVE  RequestInv'
<1>1. /\ sie1_msg' = {}
      /\ UNCHANGED <<td_control, command, step>>
  BY DEF DrainClear, WaitClear, RetryClear, ClearMessage
<1>2. /\ pc' \in {"wait", "read", "control", "retryWait"}
      /\ pc' = "retryWait" => pc = "retryClear"
      /\ pc \in {"drainClear", "waitClear", "retryClear"}
  BY DEF DrainClear, WaitClear, RetryClear, Drained
<1>3. ASSUME PROMPT, step = SetAddress, pc' = "control"
      PROVE  td_control # "active"
  <2>1. CASE ListDone
    BY <1>2, <1>3, <2>1 DEF ListDone, RequestInv, MessageInv, RetryClear, DrainClear, WaitClear
  <2>2. CASE ~ListDone
    <3>1. WaitClear
      BY <1>3, <2>2 DEF DrainClear, RetryClear
    <3>2. /\ waits \in Nat /\ same \in Nat
          /\ WAIT_LIMIT \in Nat \ {0} /\ SAME_LIMIT \in Nat \ {0}
      BY Limits DEF IInv, TypeOK
    <3>3. GivesUp(Capped(waits + 1, WAIT_LIMIT),
                  IF val = last_msg THEN Capped(same + 1, SAME_LIMIT) ELSE 0)
      BY <1>3, <2>2, <3>1 DEF WaitClear
    <3>4. waits >= WAIT_LIMIT - 1 \/ same >= SAME_LIMIT - 1
      BY <3>2, <3>3 DEF GivesUp, Capped
    <3> QED
      BY <1>3, <3>1, <3>4 DEF WaitClear, RequestInv, HostInv
  <2> QED
    BY <2>1, <2>2
<1>4. MessageInv'
  BY <1>1, <1>2 DEF RequestInv, MessageInv
<1>5. HostInv'
  BY <1>1, <1>2, <1>3 DEF RequestInv, HostInv
<1> QED
  BY <1>2, <1>4, <1>5 DEF RequestInv, StartInv

LEMMA ControlRequest ==
    ASSUME IInv, RequestInv, Control \/ RetryWait \/ RetryControl \/ ReadKey
    PROVE  RequestInv'
<1> USE DEF RequestInv, HostInv, MessageInv, StartInv
<1>1. UNCHANGED <<td_control, command, sie1_msg, running, current_td>>
  BY RetryOutcomes, TypeParts
  DEF IInv, Control, RetryWait, RetryControl, ReadKey, ControlUnchanged, chipVars
<1>2. CASE Control
  <2>1. /\ pc = "control"
        /\ \/ step' = step + 1 /\ pc' \in {"send", "patch"}
           \/ step' = step /\ pc' = "retry" /\ td_control # "done"
    BY <1>2 DEF Control, Advance, Stay
  <2> QED
    BY <1>1, <2>1, StepRange DEF Controls
<1>3. CASE RetryWait
  BY <1>1, <1>3 DEF RetryWait
<1>4. CASE RetryControl
  <2>1. /\ pc = "retryControl"
        /\ \/ step' = step /\ pc' \in {"retry", "start"}
           \/ step' = step + 1 /\ pc' \in {"send", "patch"}
    BY <1>4, RetryOutcomes, TypeParts DEF IInv, Advance
  <2>2. PROMPT /\ pc' = "start" => running = 0 /\ current_td = "none"
    BY <1>4, <2>1, RetryOutcomes, TypeParts
    DEF IInv, Advance, PromptInv, Pending, Running, Ended, Again
  <2> QED
    BY <1>1, <2>1, <2>2, StepRange
<1>5. CASE ReadKey
  BY <1>5 DEF ReadKey
<1> QED
  BY <1>2, <1>3, <1>4, <1>5

LEMMA ChipRequest ==
    ASSUME IInv, RequestInv, Chip \/ User
    PROVE  RequestInv'
<1>1. UNCHANGED <<pc, step, waits, same, val>>
  BY DEF Chip, User, FrameStart, ListEnds, BiosGarbage, driverVars
<1>0. StartInv'
  <2>1. CASE FrameStart
    BY <1>1, <2>1 DEF FrameStart, ChipTakes, RequestInv, StartInv
  <2>2. CASE ChipCompletes \/ ChipFails \/ ChipNaks \/ ChipSkips
    <3>1. running' = 0 /\ UNCHANGED <<current_td, td_step>>
      BY <2>2 DEF ChipCompletes, ChipFails, ChipNaks, ChipSkips, Ends
    <3> QED
      BY <1>1, <3>1 DEF RequestInv, StartInv
  <2>3. CASE ChipExecutes \/ BiosGarbage \/ User
    <3>1. UNCHANGED <<running, current_td, td_step>>
      BY <2>3 DEF ChipExecutes, BiosGarbage, User, PlugIn, PullOut, PressOrRelease, chipVars
    <3> QED
      BY <1>1, <3>1 DEF RequestInv, StartInv
  <2> QED
    BY <2>1, <2>2, <2>3 DEF Chip, ListEnds
<1> SUFFICES HostInv' /\ MessageInv'
  BY <1>0 DEF RequestInv
<1> USE DEF RequestInv, HostInv, MessageInv
<1>2. CASE FrameStart
  BY <1>1, <1>2 DEF FrameStart, ChipTakes
<1>3. CASE ChipCompletes \/ ChipFails \/ ChipNaks
  <2>1. /\ running \in Steps /\ sie1_flag' /\ command' = command
        /\ td_control' \in {"done", "retried"}
    BY <1>3 DEF ChipCompletes, ChipFails, ChipNaks, Naks, Ends, Post
  <2>2. command = "none" /\ pc \notin SettingUp
    BY <2>1 DEF IInv, PendingInv
  <2>3. PROMPT /\ step = SetAddress => pc # "send"
    BY <2>1 DEF IInv, PendingInv
  <2>4. PROMPT /\ step # Poll /\ pc \in Sent \ {"slept"} => td_control = "active"
    BY <2>1 DEF IInv, PromptInv, Pending, Running, Ended
  <2> QED
    BY <1>1, <2>1, <2>2, <2>3, <2>4
<1>4. CASE ChipSkips
  <2>1. running = -1 /\ sie1_flag' /\ UNCHANGED <<command, td_control>>
    BY <1>4 DEF ChipSkips, Post
  <2>2. ~(PROMPT /\ step = SetAddress)
    BY <2>1 DEF IInv, PromptInv
  <2> QED
    BY <1>1, <2>1, <2>2
<1>5. CASE ChipExecutes /\ UNCHANGED driverVars
  BY <1>1, <1>5 DEF ChipExecutes
<1>6. CASE BiosGarbage
  BY <1>6 DEF BiosGarbage, driverVars
<1>7. CASE User
  <2>1. /\ UNCHANGED <<td_control, command>>
        /\ sie1_flag => sie1_flag'
        /\ sie1_msg' \in {sie1_msg, {Other}}
    BY <1>7 DEF User, PlugIn, PullOut, PressOrRelease, Post, chipVars
  <2>2. TDListDone \notin {Other}
    BY DEF TDListDone, Other
  <2> QED
    BY <1>1, <2>1, <2>2
<1> QED
  BY <1>2, <1>3, <1>4, <1>5, <1>6, <1>7 DEF Chip, ListEnds

LEMMA NextRequest == IInv /\ RequestInv /\ [Next]_vars => RequestInv'
<1> SUFFICES ASSUME IInv, RequestInv, [Next]_vars
             PROVE  RequestInv'
  OBVIOUS
<1>1. CASE Driver
  BY <1>1, SetUpRequest, SendRequest, ReadRequest, ClearRequest, ControlRequest DEF Driver
<1>2. CASE Chip \/ User
  BY <1>2, ChipRequest
<1>3. CASE UNCHANGED vars
  BY <1>3 DEF vars, chipVars, driverVars, RequestInv, HostInv, MessageInv, StartInv
<1> QED
  BY <1>1, <1>2, <1>3 DEF Next

(* The steps of the driver and the chip as those of KeyboardHost. *)

LEMMA StageOf ==
    ASSUME IInv
    PROVE  /\ step = Poll \/ pc \notin Sent => Stage = "ready"
           /\ step # Poll /\ pc \in {"await", "resend"} => Stage = "made"
           /\ step # Poll /\ pc \in Sent \ {"await", "resend"} => Stage = "waiting"
BY DEF Stage, Making, Waiting

LEMMA NewStageOf ==
    ASSUME IInv'
    PROVE  /\ step' = Poll \/ pc' \notin Sent => Stage' = "ready"
           /\ step' # Poll /\ pc' \in {"await", "resend"} => Stage' = "made"
           /\ step' # Poll /\ pc' \in Sent \ {"await", "resend"} => Stage' = "waiting"
BY DEF Stage, Making, Waiting

(* While a request is made or waited for, the list in memory and the one   *)
(* that runs are its makings.                                              *)
LEMMA OpenOf ==
    ASSUME PROMPT, IInv, step # Poll, pc \in Sent
    PROVE  /\ Open = (IF running = step THEN 1 ELSE 0)
                         + (IF current_td = "list" THEN 1 ELSE 0)
           /\ Outcome = IF td_control = "active" THEN "none" ELSE td_control
           /\ current_td \in {"none", "list"}
           /\ running \in {0, -1, step}
           /\ pc # "slept" /\ td_control # "active" => running = 0 /\ current_td = "none"
BY StageOf DEF Open, Outcome, IInv, PromptInv, Pending, Running, Ended, Again

LEMMA NewOpenOf ==
    ASSUME IInv', step' # Poll, pc' \in Sent
    PROVE  /\ Open' = (IF running' = step' THEN 1 ELSE 0)
                          + (IF current_td' = "list" THEN 1 ELSE 0)
           /\ Outcome' = IF td_control' = "active" THEN "none" ELSE td_control'
BY NewStageOf DEF Open, Outcome

(* Outside a request nothing is open and nothing has ended. *)
LEMMA Forgotten ==
    ASSUME IInv'
    PROVE  Stage' = "ready" => Host!Forget
BY DEF Open, Outcome, Host!Forget

(* The keyboard and the request stay as they are. *)
LEMMA Stutters ==
    ASSUME IInv, IInv', UNCHANGED <<step, plugged, addressed, configured>>, Stage' = Stage,
           Stage = "ready" \/ UNCHANGED <<running, current_td, td_control>>
    PROVE  UNCHANGED Host!vars
BY DEF Host!vars, Open, Outcome

LEMMA SetUpHost ==
    ASSUME IInv, IInv',
           SoftReset \/ ClearInterrupts \/ StartSie1 \/ InitAnswered \/ ResetAnswered
               \/ Detect \/ Look \/ Reinserted \/ PatchEndpoint
    PROVE  [Host!Next]_(Host!vars)
<1>1. UNCHANGED <<plugged, addressed, configured>> /\ pc \notin Sent /\ pc' \notin Sent
  BY DEF SoftReset, ClearInterrupts, StartSie1, InitAnswered, ResetAnswered, Detect, Look,
         LookAtPort, Reinserted, PatchEndpoint, chipVars, keyboardVars
<1>2. Stage = "ready" /\ Stage' = "ready"
  BY <1>1, StageOf, NewStageOf
<1>3. CASE step' = step
  BY <1>1, <1>2, <1>3, Stutters
<1>4. CASE step' # step
  <2>1. Reinserted
    BY <1>4
    DEF SoftReset, ClearInterrupts, StartSie1, InitAnswered, ResetAnswered, Detect, Look,
        LookAtPort, PatchEndpoint
  <2>2. step = Poll /\ plugged /\ step' = SetAddress
    BY <1>4, <2>1 DEF Reinserted, IInv, ListInv
  <2>3. Host!StartAgain
    BY <1>1, <1>2, <2>2, Forgotten
    DEF Host!StartAgain, Host!SetAddress, Host!Polling, Host!Keyboard
  <2> QED
    BY <2>3 DEF Host!Next
<1> QED
  BY <1>3, <1>4

(* A list is written, for the first time or again. *)
LEMMA SendHost ==
    ASSUME PROMPT, IInv, IInv', RequestInv, Send \/ Resend
    PROVE  [Host!Next]_(Host!vars)
<1>1. /\ UNCHANGED <<step, plugged, addressed, configured, running>>
      /\ td_control' = "active" /\ current_td' = "list"
      /\ \/ pc = "send" /\ pc' \in {"await", "slept"}
         \/ pc = "resend" /\ pc' = "slept"
  BY DEF Send, Resend, WriteList, keyboardVars
<1>2. CASE step = Poll
  BY <1>1, <1>2, StageOf, NewStageOf, Stutters
<1>3. CASE step # Poll
  <2>1. Stage' \in {"made", "waiting"} /\ Outcome' = "none"
    BY <1>1, <1>3, NewStageOf, NewOpenOf
  <2>2. Open' = (IF running = step THEN 1 ELSE 0) + 1
    BY <1>1, <1>3, NewOpenOf
  <2>3. CASE pc = "send"
    <3>1. Stage = "ready" /\ Outcome = "none"
      BY <2>3, StageOf DEF Outcome
    <3>2. Open' = 1
      BY <1>3, <2>2, <2>3, StepRange DEF IInv, PromptInv
    <3>3. Host!Make
      BY <1>1, <1>3, <2>1, <3>1, <3>2 DEF Host!Make, Host!Polling, Host!Keyboard
    <3> QED
      BY <3>3 DEF Host!Next
  <2>4. CASE pc = "resend"
    <3>1. Stage = "made" /\ Stage' = "waiting"
      BY <1>1, <1>3, <2>4, StageOf, NewStageOf
    <3>2. Open' \in {1, Open + 1}
      <4>1. Pending \/ Running \/ Ended
        BY <1>3, <2>4 DEF IInv, PromptInv
      <4>2. /\ Open = (IF running = step THEN 1 ELSE 0)
                         + (IF current_td = "list" THEN 1 ELSE 0)
            /\ step \in 1..10
        BY <1>3, <2>4, OpenOf, StepRange
      <4> QED
        BY <2>2, <4>1, <4>2 DEF Pending, Running, Ended
    <3>3. Host!MakeAgain
      BY <1>1, <2>1, <3>1, <3>2 DEF Host!MakeAgain, Host!Keyboard
    <3> QED
      BY <3>3 DEF Host!Next
  <2> QED
    BY <1>1, <2>3, <2>4
<1> QED
  BY <1>2, <1>3

(* The look at the flag after the sleep never leads to a third making. *)
LEMMA SeeFlagHost ==
    ASSUME PROMPT, IInv, IInv', RequestInv, SeeFlag
    PROVE  [Host!Next]_(Host!vars)
<1>1. /\ UNCHANGED <<step, plugged, addressed, configured, running, current_td, td_control>>
      /\ pc \in {"await", "slept"} /\ pc' = IF sie1_flag THEN "drain" ELSE "resend"
  BY DEF SeeFlag, chipVars, keyboardVars
<1>2. CASE step = Poll
  BY <1>1, <1>2, StageOf, NewStageOf, Stutters
<1>3. CASE step # Poll /\ pc = "await" /\ pc' = "drain"
  <2>1. Stage = "made" /\ Stage' = "waiting"
    BY <1>1, <1>3, StageOf, NewStageOf
  <2>2. Open' = Open /\ Outcome' = Outcome
    BY <1>1, <1>3, OpenOf, NewOpenOf
  <2>3. Host!MakeNoMore
    BY <1>1, <2>1, <2>2 DEF Host!MakeNoMore, Host!Keyboard
  <2> QED
    BY <2>3 DEF Host!Next
<1>4. CASE step # Poll /\ pc = "await" /\ pc' = "resend"
  BY <1>1, <1>4, StageOf, NewStageOf, Stutters
<1>5. CASE step # Poll /\ pc = "slept"
  <2>1. Idle
    BY <1>5 DEF SeeFlag, SleptEnough
  <2>2. sie1_flag
    BY <1>5, <2>1, StepRange DEF IInv, PromptInv, Again, Idle, RequestInv, HostInv
  <2> QED
    BY <1>1, <1>5, <2>2, StageOf, NewStageOf, Stutters
<1> QED
  BY <1>1, <1>2, <1>3, <1>4, <1>5

LEMMA WaitHost ==
    ASSUME IInv, IInv',
           DrainRead \/ DrainClear \/ WaitRead \/ WaitClear \/ RetryRead \/ RetryClear
               \/ RetryWait \/ ReadKey
    PROVE  UNCHANGED Host!vars
<1>1. /\ UNCHANGED <<step, plugged, addressed, configured, running, current_td, td_control>>
      /\ pc \in (Sent \ {"await", "resend"}) \cup {"read"}
      /\ pc' \in Sent \ {"await", "resend"} \/ step = Poll
      /\ pc = "read" => step = Poll
  BY DEF IInv, PlaceInv, DrainRead, DrainClear, WaitRead, WaitClear, RetryRead, RetryClear,
         RetryWait, ReadKey, ReadMessage, ClearMessage, Drained, chipVars, keyboardVars
<1>2. Stage' = Stage
  BY <1>1, StageOf, NewStageOf
<1> QED
  BY <1>1, <1>2, Stutters

LEMMA AdvanceHost ==
    ASSUME PROMPT, IInv, IInv', Advance, pc \in Checking,
           UNCHANGED <<plugged, addressed, configured>>,
           td_control = "done" \/ (td_control = "retried" /\ step > ConfigDesc1)
    PROVE  Host!Next
<1>1. step' = step + 1 /\ pc' \in {"send", "patch"} /\ step # Poll
  BY DEF Advance, IInv, PlaceInv
<1>2. Stage = "waiting" /\ Stage' = "ready"
  BY <1>1, StageOf, NewStageOf
<1>3. /\ Open = 0
      /\ Outcome = "done" \/ (Outcome = "retried" /\ step > ConfigDesc1)
  BY <1>1, StepRange, OpenOf
<1>4. Host!Proceed
  BY <1>1, <1>2, <1>3, Forgotten DEF Host!Proceed, Host!ConfigDesc1, Host!Keyboard
<1> QED
  BY <1>4 DEF Host!Next

LEMMA ControlHost ==
    ASSUME PROMPT, IInv, IInv', RequestInv, Control \/ RetryControl
    PROVE  [Host!Next]_(Host!vars)
<1>1. UNCHANGED <<plugged, addressed, configured, running, current_td, td_control>>
  BY RetryOutcomes, TypeParts DEF IInv, Control, ControlUnchanged, chipVars, keyboardVars
<1>2. ASSUME pc \in Checking, step' = step, pc' = "retry"
      PROVE  UNCHANGED Host!vars
  BY <1>1, <1>2, StageOf, NewStageOf, Stutters DEF IInv, PlaceInv
<1>3. CASE Control
  <2>1. /\ pc = "control"
        /\ (Advance /\ td_control = "done") \/ (step' = step /\ pc' = "retry")
    BY <1>3 DEF Control, Stay
  <2>2. CASE Advance /\ td_control = "done"
    BY <1>1, <2>1, <2>2, AdvanceHost
  <2> QED
    BY <1>2, <2>1, <2>2
<1>4. CASE RetryControl
  <2>1. /\ pc = "retryControl"
        /\ \/ step' = step /\ pc' = "retry"
           \/ step' = step /\ pc' = "start" /\ step = SetAddress
           \/ /\ Advance
              /\ td_control = "done" \/ (step > ConfigDesc1 /\ Idle)
    BY <1>4, RetryOutcomes, TypeParts DEF IInv
  <2>2. CASE step' = step /\ pc' = "start" /\ step = SetAddress
    <3>1. td_control = "retried"
      BY <2>1, <2>2 DEF RequestInv, HostInv
    <3>2. Stage = "waiting" /\ Stage' = "ready"
      BY <2>1, <2>2, StageOf, NewStageOf
    <3>3. Open = 0 /\ Outcome = "retried"
      BY <2>1, <2>2, <3>1, OpenOf
    <3>4. Host!StartAgain
      BY <1>1, <2>2, <3>2, <3>3, Forgotten
      DEF Host!StartAgain, Host!SetAddress, Host!Keyboard
    <3> QED
      BY <3>4 DEF Host!Next
  <2>3. CASE Advance /\ (td_control = "done" \/ (step > ConfigDesc1 /\ Idle))
    <3>1. td_control = "done" \/ (td_control = "retried" /\ step > ConfigDesc1)
      BY <2>1, <2>3, StepRange DEF IInv, PlaceInv, PromptInv, Pending, Running, Ended, Idle
    <3> QED
      BY <1>1, <2>1, <2>3, <3>1, AdvanceHost
  <2> QED
    BY <1>2, <2>1, <2>2, <2>3
<1> QED
  BY <1>3, <1>4

(* The chip takes the list, or passes over the endpoint descriptor. *)
LEMMA TakeHost ==
    ASSUME PROMPT, IInv, IInv', FrameStart \/ (ChipSkips /\ UNCHANGED driverVars)
    PROVE  UNCHANGED Host!vars
<1>1. /\ UNCHANGED <<step, pc, plugged, addressed, configured, td_control>>
      /\ \/ /\ running = 0 /\ current_td # "none" /\ current_td' = "none"
            /\ current_td = "list" => running' = td_step
         \/ running = -1 /\ running' = 0 /\ current_td' = current_td
  BY DEF FrameStart, ChipTakes, ChipSkips, driverVars, keyboardVars
<1>2. Stage' = Stage
  BY <1>1 DEF Stage, Making, Waiting
<1>3. CASE step # Poll /\ pc \in Sent
  <2>1. td_step = step
    BY <1>3 DEF IInv, ListInv
  <2>2. Open' = Open
    BY <1>1, <1>3, <2>1, StepRange, OpenOf, NewOpenOf
  <2>3. Outcome' = Outcome
    BY <1>1, <1>3, OpenOf, NewOpenOf
  <2> QED
    BY <1>1, <1>2, <2>2, <2>3 DEF Host!vars
<1>4. CASE ~(step # Poll /\ pc \in Sent)
  BY <1>1, <1>2, <1>4, StageOf, Stutters
<1> QED
  BY <1>3, <1>4

(* A list that ends is the present request's, or nobody's any more. *)
LEMMA EndHost ==
    ASSUME PROMPT, IInv, IInv', RequestInv, ChipCompletes \/ ChipFails \/ ChipNaks,
           UNCHANGED driverVars
    PROVE  [Host!Next]_(Host!vars)
<1>1. /\ running \in Steps /\ running' = 0 /\ UNCHANGED <<plugged, pc, step, current_td>>
      /\ td_control' \in {"done", "retried"}
  BY DEF ChipCompletes, ChipFails, ChipNaks, Naks, Ends, driverVars
<1>2. Stage' = Stage
  BY <1>1 DEF Stage, Making, Waiting
<1>3. CASE step # Poll /\ pc \in Sent
  <2>1. running = step
    BY <1>1, <1>3, OpenOf
  <2>2. Open \in {1, 2} /\ Open' = Open - 1 /\ Outcome' = td_control'
    BY <1>1, <1>3, <2>1, StepRange, OpenOf, NewOpenOf
  <2>3. Answers <=> Host!Listens
    BY <1>3, <2>1 DEF Answers, Host!Listens, SetAddress, Host!SetAddress
  <2>4. CASE ChipCompletes
    <3>1. Host!Answer
      BY <1>1, <1>2, <2>1, <2>2, <2>3, <2>4
      DEF ChipCompletes, Host!Answer, Host!SetConfig
    <3> QED
      BY <3>1 DEF Host!Next
  <2>5. CASE ChipFails
    <3>1. ~Answers /\ td_control' = "retried" /\ UNCHANGED <<addressed, configured>>
      BY <2>5 DEF ChipFails, Ends
    <3>2. Host!NoAnswer
      BY <1>1, <1>2, <2>2, <2>3, <3>1 DEF Host!NoAnswer, Host!Keyboard
    <3> QED
      BY <3>2 DEF Host!Next
  <2>6. ~ChipNaks
    BY <1>3, <2>1 DEF ChipNaks, Naks
  <2> QED
    BY <2>4, <2>5, <2>6
<1>4. CASE ~(step # Poll /\ pc \in Sent)
  <2>1. running = Poll
    <3>1. step = Poll \/ pc = "start"
      BY <1>1, <1>4, TypeParts DEF IInv, DriverOK, PlaceInv, PendingInv, ListInv, PromptInv
    <3> QED
      BY <1>1, <3>1 DEF IInv, PromptPollInv, RequestInv, StartInv
  <2>2. Stage = "ready"
    BY <1>4, StageOf
  <2>3. CASE ChipCompletes
    <3>1. addressed /\ running # SetConfig /\ addressed' = TRUE
          /\ configured' = (configured \/ running = SetConfig)
      BY <2>1, <2>3 DEF ChipCompletes, Answers
    <3>2. addressed \in BOOLEAN /\ configured \in BOOLEAN
      BY TypeParts DEF IInv, BitsOK
    <3>3. UNCHANGED <<addressed, configured>>
      BY <3>1, <3>2, Zenon
    <3> QED
      BY <1>1, <1>2, <2>2, <3>3, Stutters
  <2>4. CASE ChipFails \/ ChipNaks
    <3>1. UNCHANGED <<addressed, configured>>
      BY <2>4 DEF ChipFails, ChipNaks
    <3> QED
      BY <1>1, <1>2, <2>2, <3>1, Stutters
  <2> QED
    BY <2>3, <2>4
<1> QED
  BY <1>3, <1>4

(* A command is executed, or the BIOS leaves garbage behind. *)
LEMMA CommandHost ==
    ASSUME PROMPT, IInv, IInv', RequestInv, BiosGarbage \/ (ChipExecutes /\ UNCHANGED driverVars)
    PROVE  [Host!Next]_(Host!vars)
<1>1. UNCHANGED <<step, pc, plugged, running, current_td, td_control>>
  BY DEF BiosGarbage, ChipExecutes, driverVars, keyboardVars
<1>2. UNCHANGED <<Stage, Open, Outcome>>
  BY <1>1 DEF Stage, Making, Waiting, Open, Outcome
<1>3. CASE ChipExecutes /\ command = "reset"
  <2>1. step = SetAddress /\ running = 0
    BY <1>3 DEF IInv, PendingInv
  <2>2. Open <= 1 /\ Outcome = "none"
    <3>1. CASE pc \in Sent
      <4>1. td_control = "active"
        BY <1>3, <2>1, <3>1 DEF RequestInv, HostInv
      <4> QED
        BY <2>1, <3>1, <4>1, OpenOf
    <3>2. CASE pc \notin Sent
      BY <3>2, StageOf DEF Open, Outcome
    <3> QED
      BY <3>1, <3>2
  <2>3. addressed' = FALSE /\ configured' = FALSE
    BY <1>3 DEF ChipExecutes
  <2>4. Host!BusReset
    BY <1>1, <1>2, <2>1, <2>2, <2>3 DEF Host!BusReset, Host!SetAddress
  <2> QED
    BY <2>4 DEF Host!Next
<1>4. CASE ~(ChipExecutes /\ command = "reset")
  <2>1. UNCHANGED <<addressed, configured>>
    BY <1>4 DEF ChipExecutes, BiosGarbage, keyboardVars
  <2> QED
    BY <1>1, <1>2, <2>1 DEF Host!vars
<1> QED
  BY <1>3, <1>4

LEMMA UserHost ==
    ASSUME User
    PROVE  [Host!Next]_(Host!vars)
<1>1. UNCHANGED <<step, pc, running, current_td, td_control>>
  BY DEF User, PlugIn, PullOut, PressOrRelease, chipVars, driverVars
<1>2. UNCHANGED <<Stage, Open, Outcome>>
  BY <1>1 DEF Stage, Making, Waiting, Open, Outcome
<1>3. CASE PlugIn
  <2>1. Host!PlugIn
    BY <1>1, <1>2, <1>3 DEF PlugIn, Host!PlugIn
  <2> QED
    BY <2>1 DEF Host!Next
<1>4. CASE PullOut
  <2>1. Host!PullOut
    BY <1>1, <1>2, <1>4 DEF PullOut, Host!PullOut
  <2> QED
    BY <2>1 DEF Host!Next
<1>5. CASE PressOrRelease
  BY <1>1, <1>2, <1>5 DEF PressOrRelease, Host!vars
<1> QED
  BY <1>3, <1>4, <1>5 DEF User

(* With a prompt chip the driver is a host that makes the requests of the *)
(* enumeration in order, each at most twice, and goes on only after every *)
(* making has ended, although a frame may start between any two accesses. *)
THEOREM HostImplements ==
    ASSUME PROMPT
    PROVE  Spec => HostImplemented
<1>1. Init => Host!Init
  BY DEF Init, ChipInit, Stage, Making, Waiting, Open, Outcome, Host!Init, Host!SetAddress
<1>2. IInv /\ IInv' /\ RequestInv /\ [Next]_vars => [Host!Next]_(Host!vars)
  <2> SUFFICES ASSUME IInv, IInv', RequestInv, [Next]_vars
               PROVE  [Host!Next]_(Host!vars)
    OBVIOUS
  <2>1. CASE Driver
    BY <2>1, SetUpHost, SendHost, SeeFlagHost, WaitHost, ControlHost DEF Driver
  <2>2. CASE Chip
    BY <2>2, TakeHost, EndHost, CommandHost DEF Chip, ListEnds
  <2>3. CASE User
    BY <2>3, UserHost
  <2>4. CASE UNCHANGED vars
    BY <2>4
    DEF vars, chipVars, driverVars, keyboardVars, Host!vars, Stage, Making, Waiting, Open,
        Outcome
  <2> QED
    BY <2>1, <2>2, <2>3, <2>4 DEF Next
<1>3. Spec => []RequestInv
  BY InitRequest, NextRequest, Invariant, PTL DEF Spec
<1> QED
  BY <1>1, <1>2, <1>3, Invariant, PTL DEF Spec, HostImplemented, Host!Spec
=============================================================================
