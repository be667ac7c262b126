-------------------------- MODULE UsbTransferLists --------------------------
(***************************************************************************)
(* The transfer lists that usb.c writes into the chip's memory, and the    *)
(* chip walking through one while the driver may be writing it again.      *)
(*                                                                         *)
(* A transfer descriptor is six words: buffer, length, a word with packet  *)
(* identifier, endpoint and device address, control, retries and the next  *)
(* descriptor's address. The first one is written at 0x0500; the eight     *)
(* bytes of the request follow it; the other descriptors follow those,     *)
(* each where the address, which advances by itself, has come to.          *)
(***************************************************************************)
EXTENDS Naturals, Sequences, SequencesExt

CONSTANT RESENDS   \* how often a list is written again at most

ASSUME ResendsAssumption == RESENDS \in Nat

----------------------------------------------------------------------------
(* Words. *)

ListStart == \h0500
Payload == \h050C
TdBytes == 12
PayloadBytes == 8

Setup0 == \h00D0   \* the first packet of a request, to address 0
Setup == \h02D0    \* to address 2, the keyboard's
In0 == \h0090
In == \h0290
Out == \h0210
In1 == \h0291      \* endpoint 1: the key reports

Data0 == \h0001
Data1 == \h0041

Td(buffer, length, packet, control, next) ==
    [buffer |-> buffer, length |-> length, packet |-> packet,
     control |-> control, next |-> next]

Tds == [buffer : Nat, length : Nat, packet : Nat, control : Nat, next : Nat]

(* A request: wLength of its eight bytes and its descriptors. *)
Request(wLength, tds) == [wLength |-> wLength, tds |-> tds]

First(packet) == Td(Payload, 8, packet, Data0, \h0514)

SetAddressList == Request(0,
    <<First(Setup0),
      Td(0, 0, In0, Data1, 0)>>)

(* Mutants: lists with a word that is another one's. *)
DeviceDesc1List_LengthForNext == Request(8,
    <<First(Setup),
      Td(\h052C, 8, In, Data1, 8),
      Td(0, 0, Out, Data1, 0)>>)
DeviceDesc2List_SkipsOne == Request(\h12,
    <<First(Setup),
      Td(\h0544, 8, In, Data1, \h0520),
      Td(\h054C, 8, In, Data0, \h0538),
      Td(\h0554, 2, In, Data1, \h0538),
      Td(0, 0, Out, Data1, 0)>>)
DeviceDesc2List_SameToggle == Request(\h12,
    <<First(Setup),
      Td(\h0544, 8, In, Data1, \h0520),
      Td(\h054C, 8, In, Data1, \h052C),
      Td(\h0554, 2, In, Data1, \h0538),
      Td(0, 0, Out, Data1, 0)>>)
ConfigDesc1List_OneTooMany == Request(9,
    <<First(Setup),
      Td(\h0544, 8, In, Data1, \h0520),
      Td(\h054C, 2, In, Data0, \h052C),
      Td(0, 0, Out, Data1, 0)>>)
HidDescList_BufferInList == Request(\h7B,
    <<First(Setup),
      Td(\h0520, 8, In, Data1, \h0520),
      Td(0, 0, Out, Data1, 0)>>)

DeviceDesc1List == Request(8,
    <<First(Setup),
      Td(\h052C, 8, In, Data1, \h0520),
      Td(0, 0, Out, Data1, 0)>>)

DeviceDesc2List == Request(\h12,
    <<First(Setup),
      Td(\h0544, 8, In, Data1, \h0520),
      Td(\h054C, 8, In, Data0, \h052C),
      Td(\h0554, 2, In, Data1, \h0538),
      Td(0, 0, Out, Data1, 0)>>)

ConfigDesc1List == Request(9,
    <<First(Setup),
      Td(\h0544, 8, In, Data1, \h0520),
      Td(\h054C, 1, In, Data0, \h052C),
      Td(0, 0, Out, Data1, 0)>>)

ConfigDesc2List == Request(\h22,
    <<First(Setup),
      Td(\h055C, 8, In, Data1, \h0520),
      Td(\h0564, 8, In, Data0, \h052C),
      Td(\h056C, 8, In, Data1, \h0538),
      Td(\h0574, 8, In, Data0, \h0544),
      Td(\h057C, 2, In, Data1, \h0550),
      Td(0, 0, Out, Data1, 0)>>)

(* UsbSetConfig and UsbClassRequest: no data. *)
NoDataList == Request(0,
    <<First(Setup),
      Td(0, 0, In, Data1, 0)>>)

HidDescList == Request(\h7B,
    <<First(Setup),
      Td(\h0544, 8, In, Data1, \h0520),
      Td(0, 0, Out, Data1, 0)>>)

ReportDescList == Request(\h7B,
    <<First(Setup),
      Td(\h0580, 8, In, Data1, \h0520),
      Td(\h0588, 8, In, Data0, \h052C),
      Td(\h0590, 8, In, Data1, \h0538),
      Td(\h0598, 8, In, Data0, \h0544),
      Td(\h05A0, 8, In, Data1, \h0550),
      Td(\h05A8, 8, In, Data0, \h055C),
      Td(\h05B0, 8, In, Data1, \h0568),
      Td(\h05B8, 3, In, Data0, \h0574),
      Td(0, 0, Out, Data1, 0)>>)

(* data_size is 8: the driver has written that word itself (401-413). *)
DataSize == 8
PollList(toggle) == Request(DataSize,
    <<Td(\h051C, DataSize, In1, IF toggle % 2 = 1 THEN Data0 ELSE Data1, 0)>>)

(* The lists in the order of usb_keyboard_run; the last one is repeated *)
(* with the other toggle.                                               *)
Lists == <<SetAddressList, DeviceDesc1List, DeviceDesc2List, ConfigDesc1List,
           ConfigDesc2List, NoDataList, NoDataList, HidDescList, ReportDescList,
           PollList(1), PollList(2)>>
(* Where the i-th descriptor is written. *)
Address(i) ==
    IF i = 1 THEN ListStart ELSE Payload + PayloadBytes + (i - 2) * TdBytes
Slots == {Address(i) : i \in 1..10}

----------------------------------------------------------------------------
VARIABLES
    step,      \* the list in use
    memory,    \* the descriptors in the chip's memory, by address
    written,   \* how many descriptors of the list this writing has done
    pointer,   \* HUSB_SIE1_pCurrentTDPtr, 0 when the chip has taken it
    resends,   \* how often the list was written again
    at,        \* the descriptor the chip is at, 0 when it is at none
    walked     \* what the chip has done for this list since it took it

vars == <<step, memory, written, pointer, resends, at, walked>>

List == Lists[step].tds
Nothing == Td(0, 0, 0, 0, 0)

TypeOK ==
    /\ step \in 1..Len(Lists)
    /\ memory \in [Slots -> Tds]
    /\ written \in 0..Len(List)
    /\ pointer \in {0, ListStart}
    /\ resends \in 0..RESENDS
    /\ at \in Slots \cup {0}
    /\ walked \in Seq(Tds) /\ Len(walked) <= Len(List)

Init ==
    /\ step = 1
    /\ memory = [a \in Slots |-> Nothing]
    /\ written = 0
    /\ pointer = 0
    /\ resends = 0
    /\ at = 0
    /\ walked = <<>>

(* The first writing of a list, or the next descriptor of any writing. *)
Begun == written > 0
Untouched == pointer = 0 /\ at = 0 /\ walked = <<>>

WriteTd ==
    /\ Begun \/ Untouched
    /\ written < Len(List)
    /\ memory' = [memory EXCEPT ![Address(written + 1)] = List[written + 1]]
    /\ written' = written + 1
    /\ UNCHANGED <<step, pointer, resends, at, walked>>

(* The list is complete: the chip is pointed to it. *)
HandOver ==
    /\ written = Len(List)
    /\ written' = 0
    /\ pointer' = ListStart
    /\ UNCHANGED <<step, memory, resends, at, walked>>

(* No message yet: the same list is written again, whatever the chip does. *)
Resend ==
    /\ written = 0
    /\ at # 0 \/ pointer # 0
    /\ resends < RESENDS
    /\ memory' = [memory EXCEPT ![ListStart] = List[1]]
    /\ written' = 1
    /\ resends' = resends + 1
    /\ UNCHANGED <<step, pointer, at, walked>>

(* The chip takes the list at a frame start. *)
Take ==
    /\ pointer # 0
    /\ at = 0
    /\ at' = pointer
    /\ pointer' = 0
    /\ walked' = <<>>
    /\ UNCHANGED <<step, memory, written, resends>>

(* It does what the descriptor says and goes on to the next. *)
Walk ==
    /\ at # 0
    /\ walked' = Append(walked, memory[at])
    /\ at' = memory[at].next
    /\ UNCHANGED <<step, memory, written, pointer, resends>>

(* The message has come and nothing is left to do: on to the next list. *)
Proceed ==
    /\ at = 0 /\ pointer = 0 /\ written = 0
    /\ walked # <<>>
    /\ step' = IF step = Len(Lists) THEN step - 1 ELSE step + 1
    /\ resends' = 0
    /\ walked' = <<>>
    /\ UNCHANGED <<memory, written, pointer, at>>

Next == WriteTd \/ HandOver \/ Resend \/ Take \/ Walk \/ Proceed

Spec == Init /\ [][Next]_vars
----------------------------------------------------------------------------
(* Properties. *)

(* The positions of the descriptors that bring data. *)
IsData(td) == td.packet \in {In0, In, In1} /\ td.length > 0
DataAt == {i \in DOMAIN List : IsData(List[i])}

(* The chip does the list's descriptors in their order and all of them,    *)
(* also when the list is written again under it: every next pointer, a     *)
(* constant in usb.c 104-522, is the address the advancing write reached.  *)
WalkFollowsList ==
    /\ IsPrefix(walked, List)
    /\ at # 0 => at = Address(Len(walked) + 1)
    /\ (at = 0 /\ walked # <<>>) => walked = List

(* The data of a request arrives in one stage and in one block of memory, *)
(* and never more than asked for; for the device and configuration        *)
(* descriptors it is all that was asked for (usb.c 104-391).              *)
DataCoversRequest ==
    /\ \A i \in DataAt :
           i + 1 \in DataAt => List[i + 1].buffer = List[i].buffer + List[i].length
    /\ \A first, last \in DataAt :
           DataAt \subseteq first..last =>
               LET arrives == List[last].buffer + List[last].length
                   asked == List[first].buffer + Lists[step].wLength
               IN  /\ first..last \subseteq DataAt
                   /\ arrives <= asked
                   /\ step \in 1..7 => arrives = asked
    /\ step \in 1..7 /\ DataAt = {} => Lists[step].wLength = 0

(* What arrives never overwrites the list it is asked for with, nor the    *)
(* request's eight bytes.                                                  *)
BuffersClearOfList ==
    \A i \in DataAt : List[i].buffer >= Address(Len(List) + 1)

(* Toggles: a request starts with DATA0, its data with DATA1 and alternate, *)
(* its end is DATA1 in the other direction.                                *)
TogglesAlternate ==
    /\ \A i \in DataAt : i + 1 \in DataAt => List[i].control # List[i + 1].control
    /\ Len(List) > 1 =>
           LET last == List[Len(List)]
           IN  /\ List[1].control = Data0
               /\ List[2].control = Data1
               /\ last.control = Data1
               /\ last.packet = Out <=> DataAt # {}
=============================================================================
