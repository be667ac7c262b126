----------------------------- MODULE Cy7c67200 -----------------------------
(***************************************************************************)
(* The USB host chip and the keyboard on its port, as the driver in        *)
(* src/software/text_mode meets them. Neither is code of the repository:   *)
(* what stands here is what usb.c and usb_keyboard.c rely on, and where    *)
(* they leave the chip's behaviour open, it is open here.                  *)
(*                                                                         *)
(* The chip takes the transfer list that current_td points to at a frame   *)
(* start, runs it, writes the outcome into the list and posts a message in *)
(* SIE1msg. The list may have been written again meanwhile.                *)
(***************************************************************************)
EXTENDS Integers

CONSTANTS
    Reports,   \* what the keyboard may report: pairs of key bytes
    PROMPT,    \* the chip ends a list before the driver's 10 ms sleep is over
    RETRIES    \* a transfer may need a second attempt on the wire

VARIABLES
    mailbox,       \* what the chip last put into the mailbox
    mailbox_flag,  \* HPI status: mailbox not read yet
    command,       \* the command written to the mailbox, not executed yet
    sie1_msg,      \* the bits of the SIE1msg register
    sie1_flag,     \* HPI status: SIE1msg not read yet
    current_td,    \* what HUSB_SIE1_pCurrentTDPtr points to
    running,       \* the step whose list the chip is running
    td_step,       \* the step whose list is in memory at 0x0500
    td_control,    \* the word at 0x0508, its first transfer's control
    report,        \* the word at 0x051e, as <<low byte, high byte>>
    plugged, addressed, configured,  \* the keyboard on the port
    held,          \* the keyboard's present report
    fresh,         \* held has not been sent to the host
    swapped,       \* history: unplugged since the last bus reset
    clean          \* history: whose list ended cleanly last, 0 if none has
                   \* since the present step's first send

chipVars == <<mailbox, mailbox_flag, command, sie1_msg, sie1_flag, current_td,
              running, td_step, td_control, report>>
keyboardVars == <<plugged, addressed, configured, held, fresh>>
historyVars == <<swapped, clean>>

(* The driver's steps, each a transfer list; 0 stands for none. *)
SetAddress == 1
DeviceDesc1 == 2
ConfigDesc1 == 4
SetConfig == 6
ReportDesc == 9
Poll == 10
Steps == 1..Poll

TDListDone == "TDListDone"
Other == "Other"
Messages == SUBSET {TDListDone, Other}

(* 0x13, 0x03, and every other control word: an error or a used retry. *)
Controls == {"active", "done", "retried"}

(* The word a list of several transfers leaves at 0x051e: the next pointer *)
(* 0x0520 of its second transfer.                                          *)
NextPointer == <<32, 5>>

Byte == 0..255
ASSUME ReportsAssumption == Reports \subseteq Byte \X Byte
ASSUME ModesAssumption == PROMPT \in BOOLEAN /\ RETRIES \in BOOLEAN

ChipTypeOK ==
    /\ mailbox \in {"ack", "junk"}
    /\ mailbox_flag \in BOOLEAN
    /\ command \in {"none", "init", "reset"}
    /\ sie1_msg \in Messages
    /\ sie1_flag \in BOOLEAN
    /\ current_td \in {"none", "list", "endpoint"}
    /\ running \in Steps \cup {0, -1}
    /\ td_step \in Steps \cup {0}
    /\ td_control \in Controls
    /\ report \in Reports \cup {NextPointer, <<0, 0>>}
    /\ plugged \in BOOLEAN
    /\ addressed \in BOOLEAN
    /\ configured \in BOOLEAN
    /\ held \in Reports
    /\ fresh \in BOOLEAN
    /\ swapped \in BOOLEAN
    /\ clean \in Steps \cup {0}

ChipInit ==
    /\ mailbox = "junk"
    /\ mailbox_flag = FALSE
    /\ command = "none"
    /\ sie1_msg = {}
    /\ sie1_flag = FALSE
    /\ current_td = "none"
    /\ running = 0
    /\ td_step = 0
    /\ td_control = "retried"
    /\ report = <<0, 0>>
    /\ plugged \in BOOLEAN
    /\ addressed = FALSE
    /\ configured = FALSE
    /\ held \in Reports
    /\ fresh = FALSE
    /\ swapped = FALSE
    /\ clean = 0

----------------------------------------------------------------------------
(* What the driver's accesses do to the chip. *)

Post(m) ==
    /\ sie1_msg' = m
    /\ sie1_flag' = TRUE

ReadSie1Msg == sie1_flag' = FALSE

Idle == running = 0 /\ current_td = "none" /\ command = "none"

----------------------------------------------------------------------------
(* The chip's steps. *)

(* A command written to the mailbox: set up the port or reset the bus. *)
ChipExecutes ==
    /\ command # "none"
    /\ command' = "none"
    /\ mailbox' = "ack"
    /\ mailbox_flag' = TRUE
    /\ IF command = "reset"
       THEN /\ addressed' = FALSE
            /\ configured' = FALSE
            /\ fresh' = FALSE
            /\ swapped' = FALSE
       ELSE UNCHANGED <<addressed, configured, fresh, swapped>>
    /\ UNCHANGED <<sie1_msg, sie1_flag, current_td, running, td_step, td_control,
                   report, plugged, held, clean>>

(* A frame starts: the list is taken. -1 is the endpoint descriptor, which *)
(* holds no active transfer (usb_keyboard.c 401-407).                      *)
ChipTakes ==
    /\ command = "none"
    /\ current_td # "none"
    /\ running = 0
    /\ running' = IF current_td = "endpoint" THEN -1 ELSE td_step
    /\ current_td' = "none"
    /\ UNCHANGED <<mailbox, mailbox_flag, command, sie1_msg, sie1_flag, td_step,
                   td_control, report, keyboardVars, historyVars>>

(* The keyboard answers at address 0 until it has its address, at address  *)
(* 2 afterwards, and on its interrupt endpoint once it is configured.      *)
Answers ==
    /\ plugged
    /\ (running = SetAddress) = ~addressed
    /\ running = Poll => configured

Naks == running = Poll /\ Answers /\ ~fresh

Ends(control) ==
    /\ running' = 0
    /\ td_control' = control
    /\ clean' = IF control = "done" THEN running ELSE clean
    /\ \E more \in SUBSET {Other} : Post({TDListDone} \cup more)
    /\ UNCHANGED <<mailbox, mailbox_flag, command, current_td, td_step, plugged,
                   held, swapped>>

ChipCompletes ==
    /\ running \in Steps
    /\ Answers
    /\ ~Naks
    /\ \E control \in {"done"} \cup (IF RETRIES THEN {"retried"} ELSE {}) :
           Ends(control)
    /\ addressed' = TRUE
    /\ configured' = (configured \/ running = SetConfig)
    /\ report' = IF running = Poll THEN held ELSE report
    /\ fresh' = (fresh /\ running # Poll)

(* Nobody answers: the transfer runs out of its retries. *)
ChipFails ==
    /\ running \in Steps
    /\ ~Answers
    /\ Ends("retried")
    /\ UNCHANGED <<addressed, configured, report, fresh>>

(* The keyboard has nothing to report, and the list may end without data. *)
ChipNaks ==
    /\ Naks
    /\ Ends("retried")
    /\ UNCHANGED <<addressed, configured, report, fresh>>

(* Nothing to do for the endpoint descriptor. *)
ChipSkips ==
    /\ running = -1
    /\ running' = 0
    /\ \E more \in SUBSET {Other} : Post({TDListDone} \cup more)
    /\ UNCHANGED <<mailbox, mailbox_flag, command, current_td, td_step, td_control,
                   report, keyboardVars, historyVars>>

ChipStep ==
    \/ ChipExecutes
    \/ ChipTakes
    \/ ChipCompletes
    \/ ChipFails
    \/ ChipNaks
    \/ ChipSkips

----------------------------------------------------------------------------
(* The user. *)

PlugIn ==
    /\ ~plugged
    /\ plugged' = TRUE
    /\ Post({Other})
    /\ UNCHANGED <<mailbox, mailbox_flag, command, current_td, running, td_step,
                   td_control, report, addressed, configured, held, fresh, historyVars>>

PullOut ==
    /\ plugged
    /\ plugged' = FALSE
    /\ addressed' = FALSE
    /\ configured' = FALSE
    /\ fresh' = FALSE
    /\ swapped' = TRUE
    /\ Post({Other})
    /\ UNCHANGED <<mailbox, mailbox_flag, command, current_td, running, td_step,
                   td_control, report, held, clean>>

(* Keys go down or up; a report is due once the keyboard is configured. *)
PressOrRelease ==
    /\ \E r \in Reports \ {held} : held' = r
    /\ fresh' = configured
    /\ UNCHANGED <<chipVars, plugged, addressed, configured, historyVars>>
=============================================================================
