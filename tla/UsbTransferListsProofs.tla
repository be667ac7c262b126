----------------------- MODULE UsbTransferListsProofs -----------------------
(***************************************************************************)
(* However often a list is written again under the chip, it does the       *)
(* list's descriptors in their order and all of them; and the words of the *)
(* lists say what the request asks for.                                    *)
(*                                                                         *)
(* The words matter twice. That the next pointers are the addresses the    *)
(* advancing write reaches (Linked) is what the walk's invariant needs of  *)
(* them; which descriptors bring data, and where to (Stage), is what the   *)
(* other properties say. Each is a lemma about one list of usb.c.          *)
(***************************************************************************)
EXTENDS UsbTransferLists, TLAPS

(* The next pointer of a descriptor is where the next one is written. *)
Linked(tds) ==
    /\ tds \in Seq(Tds)
    /\ Len(tds) \in 1..10
    /\ \A i \in 1..Len(tds) :
           tds[i].next = IF i < Len(tds) THEN Address(i + 1) ELSE 0

(* The data stage of a request is the descriptors first..last. *)
Stage(r, first, last) ==
    /\ first \in Nat /\ last \in Nat
    /\ \A i \in 1..Len(r.tds) : IsData(r.tds[i]) <=> (i \in first..last)
    /\ first..last \subseteq 1..Len(r.tds)
    /\ \A i \in first..last : r.tds[i].buffer >= Address(Len(r.tds) + 1)
    /\ \A i \in first..last : i + 1 <= last =>
           /\ r.tds[i + 1].buffer = r.tds[i].buffer + r.tds[i].length
           /\ r.tds[i + 1].control # r.tds[i].control
    /\ first <= last =>
           r.tds[last].buffer + r.tds[last].length <= r.tds[first].buffer + r.wLength

(* It brings all that was asked for. *)
Whole(r, first, last) ==
    IF first <= last
    THEN r.tds[last].buffer + r.tds[last].length = r.tds[first].buffer + r.wLength
    ELSE r.wLength = 0

(* The packets around the data stage of a control transfer. *)
Enclosed(tds, first, last) ==
    Len(tds) > 1 =>
        /\ tds[1].control = Data0
        /\ tds[2].control = Data1
        /\ tds[Len(tds)].control = Data1
        /\ (tds[Len(tds)].packet = Out) <=> (first <= last)

----------------------------------------------------------------------------
(* The lists of usb.c. *)

LEMMA SetAddressWords ==
    /\ Linked(SetAddressList.tds)
    /\ Stage(SetAddressList, 2, 1)
    /\ Whole(SetAddressList, 2, 1)
    /\ Enclosed(SetAddressList.tds, 2, 1)
<1> DEFINE r == SetAddressList
<1>1. r.wLength = 0 /\ r.tds =
        <<First(Setup0),
          Td(0, 0, In0, Data1, 0)>>
  BY DEF SetAddressList, Request
<1> HIDE DEF r
<1>2. Len(r.tds) = 2 /\ r.tds \in Seq(Tds)
  BY <1>1
  DEF First, Td, Tds, Setup0, Setup, In0, In, Out, Data0, Data1, Payload
<1>3. \A i \in 1..2 : r.tds[i].next = IF i < 2 THEN Address(i + 1) ELSE 0
  BY <1>1 DEF First, Td, Address, Payload, PayloadBytes, TdBytes
<1>4. \A i \in 1..2 : IsData(r.tds[i]) <=> (i \in 2..1)
  BY <1>1 DEF First, Td, IsData, Setup0, Setup, In0, In, In1, Out
<1>5. \A i \in 2..1 :
          /\ r.tds[i].buffer >= Address(3)
          /\ i + 1 <= 1 =>
                 /\ r.tds[i + 1].buffer = r.tds[i].buffer + r.tds[i].length
                 /\ r.tds[i + 1].control # r.tds[i].control
  BY <1>1 DEF Td, Address, Payload, PayloadBytes, TdBytes, Data0, Data1
<1>6. r.wLength = 0
  BY <1>1
<1>7. Enclosed(r.tds, 2, 1)
  BY <1>1, <1>2 DEF Enclosed, First, Td, In0, In, Out, Data0, Data1
<1>8. Linked(r.tds)
  BY <1>2, <1>3 DEF Linked
<1>9. Stage(r, 2, 1) /\ Whole(r, 2, 1)
  BY <1>1, <1>2, <1>4, <1>5, <1>6 DEF Stage, Whole
<1> QED
  BY <1>7, <1>8, <1>9 DEF r

LEMMA DeviceDesc1Words ==
    /\ Linked(DeviceDesc1List.tds)
    /\ Stage(DeviceDesc1List, 2, 2)
    /\ Whole(DeviceDesc1List, 2, 2)
    /\ Enclosed(DeviceDesc1List.tds, 2, 2)
<1> DEFINE r == DeviceDesc1List
<1>1. r.wLength = 8 /\ r.tds =
        <<First(Setup),
          Td(\h052C, 8, In, Data1, \h0520),
          Td(0, 0, Out, Data1, 0)>>
  BY DEF DeviceDesc1List, Request
<1> HIDE DEF r
<1>2. Len(r.tds) = 3 /\ r.tds \in Seq(Tds)
  BY <1>1
  DEF First, Td, Tds, Setup0, Setup, In0, In, Out, Data0, Data1, Payload
<1>3. \A i \in 1..3 : r.tds[i].next = IF i < 3 THEN Address(i + 1) ELSE 0
  BY <1>1 DEF First, Td, Address, Payload, PayloadBytes, TdBytes
<1>4. \A i \in 1..3 : IsData(r.tds[i]) <=> (i \in 2..2)
  BY <1>1 DEF First, Td, IsData, Setup0, Setup, In0, In, In1, Out
<1>5. \A i \in 2..2 :
          /\ r.tds[i].buffer >= Address(4)
          /\ i + 1 <= 2 =>
                 /\ r.tds[i + 1].buffer = r.tds[i].buffer + r.tds[i].length
                 /\ r.tds[i + 1].control # r.tds[i].control
  BY <1>1 DEF Td, Address, Payload, PayloadBytes, TdBytes, Data0, Data1
<1>6. /\ r.tds[2].buffer + r.tds[2].length = r.tds[2].buffer + r.wLength
      /\ r.tds[2].buffer + r.tds[2].length <= r.tds[2].buffer + r.wLength
  BY <1>1 DEF Td
<1>7. Enclosed(r.tds, 2, 2)
  BY <1>1, <1>2 DEF Enclosed, First, Td, In0, In, Out, Data0, Data1
<1>8. Linked(r.tds)
  BY <1>2, <1>3 DEF Linked
<1>9. Stage(r, 2, 2) /\ Whole(r, 2, 2)
  BY <1>1, <1>2, <1>4, <1>5, <1>6 DEF Stage, Whole
<1> QED
  BY <1>7, <1>8, <1>9 DEF r

LEMMA DeviceDesc2Words ==
    /\ Linked(DeviceDesc2List.tds)
    /\ Stage(DeviceDesc2List, 2, 4)
    /\ Whole(DeviceDesc2List, 2, 4)
    /\ Enclosed(DeviceDesc2List.tds, 2, 4)
<1> DEFINE r == DeviceDesc2List
<1>1. r.wLength = \h12 /\ r.tds =
        <<First(Setup),
          Td(\h0544, 8, In, Data1, \h0520),
          Td(\h054C, 8, In, Data0, \h052C),
          Td(\h0554, 2, In, Data1, \h0538),
          Td(0, 0, Out, Data1, 0)>>
  BY DEF DeviceDesc2List, Request
<1> HIDE DEF r
<1>2. Len(r.tds) = 5 /\ r.tds \in Seq(Tds)
  BY <1>1
  DEF First, Td, Tds, Setup0, Setup, In0, In, Out, Data0, Data1, Payload
<1>3. \A i \in 1..5 : r.tds[i].next = IF i < 5 THEN Address(i + 1) ELSE 0
  BY <1>1 DEF First, Td, Address, Payload, PayloadBytes, TdBytes
<1>4. \A i \in 1..5 : IsData(r.tds[i]) <=> (i \in 2..4)
  BY <1>1 DEF First, Td, IsData, Setup0, Setup, In0, In, In1, Out
<1>5. \A i \in 2..4 :
          /\ r.tds[i].buffer >= Address(6)
          /\ i + 1 <= 4 =>
                 /\ r.tds[i + 1].buffer = r.tds[i].buffer + r.tds[i].length
                 /\ r.tds[i + 1].control # r.tds[i].control
  BY <1>1 DEF Td, Address, Payload, PayloadBytes, TdBytes, Data0, Data1
<1>6. /\ r.tds[4].buffer + r.tds[4].length = r.tds[2].buffer + r.wLength
      /\ r.tds[4].buffer + r.tds[4].length <= r.tds[2].buffer + r.wLength
  BY <1>1 DEF Td
<1>7. Enclosed(r.tds, 2, 4)
  BY <1>1, <1>2 DEF Enclosed, First, Td, In0, In, Out, Data0, Data1
<1>8. Linked(r.tds)
  BY <1>2, <1>3 DEF Linked
<1>9. Stage(r, 2, 4) /\ Whole(r, 2, 4)
  BY <1>1, <1>2, <1>4, <1>5, <1>6 DEF Stage, Whole
<1> QED
  BY <1>7, <1>8, <1>9 DEF r

LEMMA ConfigDesc1Words ==
    /\ Linked(ConfigDesc1List.tds)
    /\ Stage(ConfigDesc1List, 2, 3)
    /\ Whole(ConfigDesc1List, 2, 3)
    /\ Enclosed(ConfigDesc1List.tds, 2, 3)
<1> DEFINE r == ConfigDesc1List
<1>1. r.wLength = 9 /\ r.tds =
        <<First(Setup),
          Td(\h0544, 8, In, Data1, \h0520),
          Td(\h054C, 1, In, Data0, \h052C),
          Td(0, 0, Out, Data1, 0)>>
  BY DEF ConfigDesc1List, Request
<1> HIDE DEF r
<1>2. Len(r.tds) = 4 /\ r.tds \in Seq(Tds)
  BY <1>1
  DEF First, Td, Tds, Setup0, Setup, In0, In, Out, Data0, Data1, Payload
<1>3. \A i \in 1..4 : r.tds[i].next = IF i < 4 THEN Address(i + 1) ELSE 0
  BY <1>1 DEF First, Td, Address, Payload, PayloadBytes, TdBytes
<1>4. \A i \in 1..4 : IsData(r.tds[i]) <=> (i \in 2..3)
  BY <1>1 DEF First, Td, IsData, Setup0, Setup, In0, In, In1, Out
<1>5. \A i \in 2..3 :
          /\ r.tds[i].buffer >= Address(5)
          /\ i + 1 <= 3 =>
                 /\ r.tds[i + 1].buffer = r.tds[i].buffer + r.tds[i].length
                 /\ r.tds[i + 1].control # r.tds[i].control
  BY <1>1 DEF Td, Address, Payload, PayloadBytes, TdBytes, Data0, Data1
<1>6. /\ r.tds[3].buffer + r.tds[3].length = r.tds[2].buffer + r.wLength
      /\ r.tds[3].buffer + r.tds[3].length <= r.tds[2].buffer + r.wLength
  BY <1>1 DEF Td
<1>7. Enclosed(r.tds, 2, 3)
  BY <1>1, <1>2 DEF Enclosed, First, Td, In0, In, Out, Data0, Data1
<1>8. Linked(r.tds)
  BY <1>2, <1>3 DEF Linked
<1>9. Stage(r, 2, 3) /\ Whole(r, 2, 3)
  BY <1>1, <1>2, <1>4, <1>5, <1>6 DEF Stage, Whole
<1> QED
  BY <1>7, <1>8, <1>9 DEF r

LEMMA ConfigDesc2Words ==
    /\ Linked(ConfigDesc2List.tds)
    /\ Stage(ConfigDesc2List, 2, 6)
    /\ Whole(ConfigDesc2List, 2, 6)
    /\ Enclosed(ConfigDesc2List.tds, 2, 6)
<1> DEFINE r == ConfigDesc2List
<1>1. r.wLength = \h22 /\ r.tds =
        <<First(Setup),
          Td(\h055C, 8, In, Data1, \h0520),
          Td(\h0564, 8, In, Data0, \h052C),
          Td(\h056C, 8, In, Data1, \h0538),
          Td(\h0574, 8, In, Data0, \h0544),
          Td(\h057C, 2, In, Data1, \h0550),
          Td(0, 0, Out, Data1, 0)>>
  BY DEF ConfigDesc2List, Request
<1> HIDE DEF r
<1>2. Len(r.tds) = 7 /\ r.tds \in Seq(Tds)
  BY <1>1
  DEF First, Td, Tds, Setup0, Setup, In0, In, Out, Data0, Data1, Payload
<1>3. \A i \in 1..7 : r.tds[i].next = IF i < 7 THEN Address(i + 1) ELSE 0
  BY <1>1 DEF First, Td, Address, Payload, PayloadBytes, TdBytes
<1>4. \A i \in 1..7 : IsData(r.tds[i]) <=> (i \in 2..6)
  BY <1>1 DEF First, Td, IsData, Setup0, Setup, In0, In, In1, Out
<1>5. \A i \in 2..6 :
          /\ r.tds[i].buffer >= Address(8)
          /\ i + 1 <= 6 =>
                 /\ r.tds[i + 1].buffer = r.tds[i].buffer + r.tds[i].length
                 /\ r.tds[i + 1].control # r.tds[i].control
  BY <1>1 DEF Td, Address, Payload, PayloadBytes, TdBytes, Data0, Data1
<1>6. /\ r.tds[6].buffer + r.tds[6].length = r.tds[2].buffer + r.wLength
      /\ r.tds[6].buffer + r.tds[6].length <= r.tds[2].buffer + r.wLength
  BY <1>1 DEF Td
<1>7. Enclosed(r.tds, 2, 6)
  BY <1>1, <1>2 DEF Enclosed, First, Td, In0, In, Out, Data0, Data1
<1>8. Linked(r.tds)
  BY <1>2, <1>3 DEF Linked
<1>9. Stage(r, 2, 6) /\ Whole(r, 2, 6)
  BY <1>1, <1>2, <1>4, <1>5, <1>6 DEF Stage, Whole
<1> QED
  BY <1>7, <1>8, <1>9 DEF r

LEMMA NoDataWords ==
    /\ Linked(NoDataList.tds)
    /\ Stage(NoDataList, 2, 1)
    /\ Whole(NoDataList, 2, 1)
    /\ Enclosed(NoDataList.tds, 2, 1)
<1> DEFINE r == NoDataList
<1>1. r.wLength = 0 /\ r.tds =
        <<First(Setup),
          Td(0, 0, In, Data1, 0)>>
  BY DEF NoDataList, Request
<1> HIDE DEF r
<1>2. Len(r.tds) = 2 /\ r.tds \in Seq(Tds)
  BY <1>1
  DEF First, Td, Tds, Setup0, Setup, In0, In, Out, Data0, Data1, Payload
<1>3. \A i \in 1..2 : r.tds[i].next = IF i < 2 THEN Address(i + 1) ELSE 0
  BY <1>1 DEF First, Td, Address, Payload, PayloadBytes, TdBytes
<1>4. \A i \in 1..2 : IsData(r.tds[i]) <=> (i \in 2..1)
  BY <1>1 DEF First, Td, IsData, Setup0, Setup, In0, In, In1, Out
<1>5. \A i \in 2..1 :
          /\ r.tds[i].buffer >= Address(3)
          /\ i + 1 <= 1 =>
                 /\ r.tds[i + 1].buffer = r.tds[i].buffer + r.tds[i].length
                 /\ r.tds[i + 1].control # r.tds[i].control
  BY <1>1 DEF Td, Address, Payload, PayloadBytes, TdBytes, Data0, Data1
<1>6. r.wLength = 0
  BY <1>1
<1>7. Enclosed(r.tds, 2, 1)
  BY <1>1, <1>2 DEF Enclosed, First, Td, In0, In, Out, Data0, Data1
<1>8. Linked(r.tds)
  BY <1>2, <1>3 DEF Linked
<1>9. Stage(r, 2, 1) /\ Whole(r, 2, 1)
  BY <1>1, <1>2, <1>4, <1>5, <1>6 DEF Stage, Whole
<1> QED
  BY <1>7, <1>8, <1>9 DEF r

LEMMA HidDescWords ==
    /\ Linked(HidDescList.tds)
    /\ Stage(HidDescList, 2, 2)
    /\ Enclosed(HidDescList.tds, 2, 2)
<1> DEFINE r == HidDescList
<1>1. r.wLength = \h7B /\ r.tds =
        <<First(Setup),
          Td(\h0544, 8, In, Data1, \h0520),
          Td(0, 0, Out, Data1, 0)>>
  BY DEF HidDescList, Request
<1> HIDE DEF r
<1>2. Len(r.tds) = 3 /\ r.tds \in Seq(Tds)
  BY <1>1
  DEF First, Td, Tds, Setup0, Setup, In0, In, Out, Data0, Data1, Payload
<1>3. \A i \in 1..3 : r.tds[i].next = IF i < 3 THEN Address(i + 1) ELSE 0
  BY <1>1 DEF First, Td, Address, Payload, PayloadBytes, TdBytes
<1>4. \A i \in 1..3 : IsData(r.tds[i]) <=> (i \in 2..2)
  BY <1>1 DEF First, Td, IsData, Setup0, Setup, In0, In, In1, Out
<1>5. \A i \in 2..2 :
          /\ r.tds[i].buffer >= Address(4)
          /\ i + 1 <= 2 =>
                 /\ r.tds[i + 1].buffer = r.tds[i].buffer + r.tds[i].length
                 /\ r.tds[i + 1].control # r.tds[i].control
  BY <1>1 DEF Td, Address, Payload, PayloadBytes, TdBytes, Data0, Data1
<1>6. r.tds[2].buffer + r.tds[2].length <= r.tds[2].buffer + r.wLength
  BY <1>1 DEF Td
<1>7. Enclosed(r.tds, 2, 2)
  BY <1>1, <1>2 DEF Enclosed, First, Td, In0, In, Out, Data0, Data1
<1>8. Linked(r.tds)
  BY <1>2, <1>3 DEF Linked
<1>9. Stage(r, 2, 2)
  BY <1>1, <1>2, <1>4, <1>5, <1>6 DEF Stage
<1> QED
  BY <1>7, <1>8, <1>9 DEF r

LEMMA ReportDescWords ==
    /\ Linked(ReportDescList.tds)
    /\ Stage(ReportDescList, 2, 9)
    /\ Enclosed(ReportDescList.tds, 2, 9)
<1> DEFINE r == ReportDescList
<1>1. r.wLength = \h7B /\ r.tds =
        <<First(Setup),
          Td(\h0580, 8, In, Data1, \h0520),
          Td(\h0588, 8, In, Data0, \h052C),
          Td(\h0590, 8, In, Data1, \h0538),
          Td(\h0598, 8, In, Data0, \h0544),
          Td(\h05A0, 8, In, Data1, \h0550),
          Td(\h05A8, 8, In, Data0, \h055C),
          Td(\h05B0, 8, In, Data1, \h0568),
          Td(\h05B8, 3, In, Data0, \h0574),
          Td(0, 0, Out, Data1, 0)>>
  BY DEF ReportDescList, Request
<1> HIDE DEF r
<1>2. Len(r.tds) = 10 /\ r.tds \in Seq(Tds)
  BY <1>1
  DEF First, Td, Tds, Setup0, Setup, In0, In, Out, Data0, Data1, Payload
<1>3. \A i \in 1..10 : r.tds[i].next = IF i < 10 THEN Address(i + 1) ELSE 0
  BY <1>1 DEF First, Td, Address, Payload, PayloadBytes, TdBytes
<1>4. \A i \in 1..10 : IsData(r.tds[i]) <=> (i \in 2..9)
  BY <1>1 DEF First, Td, IsData, Setup0, Setup, In0, In, In1, Out
<1>5. \A i \in 2..9 :
          /\ r.tds[i].buffer >= Address(11)
          /\ i + 1 <= 9 =>
                 /\ r.tds[i + 1].buffer = r.tds[i].buffer + r.tds[i].length
                 /\ r.tds[i + 1].control # r.tds[i].control
  BY <1>1 DEF Td, Address, Payload, PayloadBytes, TdBytes, Data0, Data1
<1>6. r.tds[9].buffer + r.tds[9].length <= r.tds[2].buffer + r.wLength
  BY <1>1 DEF Td
<1>7. Enclosed(r.tds, 2, 9)
  BY <1>1, <1>2 DEF Enclosed, First, Td, In0, In, Out, Data0, Data1
<1>8. Linked(r.tds)
  BY <1>2, <1>3 DEF Linked
<1>9. Stage(r, 2, 9)
  BY <1>1, <1>2, <1>4, <1>5, <1>6 DEF Stage
<1> QED
  BY <1>7, <1>8, <1>9 DEF r

LEMMA PollWords ==
    ASSUME NEW toggle \in {1, 2}
    PROVE  /\ Linked(PollList(toggle).tds)
           /\ Stage(PollList(toggle), 1, 1)
           /\ Enclosed(PollList(toggle).tds, 1, 1)
<1> DEFINE r == PollList(toggle)
<1>1. PICK control \in {Data0, Data1} :
          r.wLength = 8 /\ r.tds = <<Td(\h051C, 8, In1, control, 0)>>
  BY DEF PollList, Request, DataSize
<1> HIDE DEF r
<1>2. Len(r.tds) = 1 /\ r.tds \in Seq(Tds)
  BY <1>1 DEF Td, Tds, In1, Data0, Data1
<1>3. r.tds[1].next = 0 /\ IsData(r.tds[1])
  BY <1>1 DEF Td, IsData, In1
<1>4. /\ r.tds[1].buffer >= Address(2)
      /\ r.tds[1].buffer + r.tds[1].length <= r.tds[1].buffer + r.wLength
  BY <1>1 DEF Td, Address, Payload, PayloadBytes, TdBytes
<1>5. Linked(r.tds) /\ Enclosed(r.tds, 1, 1)
  BY <1>2, <1>3 DEF Linked, Enclosed
<1>6. Stage(r, 1, 1)
  BY <1>2, <1>3, <1>4 DEF Stage
<1> QED
  BY <1>5, <1>6 DEF r

(* The words of every list. *)
LEMMA ListWords ==
    /\ Len(Lists) = 11
    /\ \A s \in 1..11 :
           /\ Linked(Lists[s].tds)
           /\ \E first, last \in Nat :
                  /\ Stage(Lists[s], first, last)
                  /\ s \in 1..7 => Whole(Lists[s], first, last)
                  /\ Enclosed(Lists[s].tds, first, last)
<1>1. Len(Lists) = 11
  BY DEF Lists
<1> SUFFICES ASSUME NEW s \in 1..11
             PROVE  /\ Linked(Lists[s].tds)
                    /\ \E first, last \in Nat :
                           /\ Stage(Lists[s], first, last)
                           /\ s \in 1..7 => Whole(Lists[s], first, last)
                           /\ Enclosed(Lists[s].tds, first, last)
  BY <1>1
<1>2. CASE s = 1
  BY <1>2, SetAddressWords DEF Lists
<1>3. CASE s = 2
  BY <1>3, DeviceDesc1Words DEF Lists
<1>4. CASE s = 3
  BY <1>4, DeviceDesc2Words DEF Lists
<1>5. CASE s = 4
  BY <1>5, ConfigDesc1Words DEF Lists
<1>6. CASE s = 5
  BY <1>6, ConfigDesc2Words DEF Lists
<1>7. CASE s \in {6, 7}
  BY <1>7, NoDataWords DEF Lists
<1>8. CASE s = 8
  BY <1>8, HidDescWords DEF Lists
<1>9. CASE s = 9
  BY <1>9, ReportDescWords DEF Lists
<1>10. CASE s = 10
  BY <1>10, PollWords DEF Lists
<1>11. CASE s = 11
  BY <1>11, PollWords DEF Lists
<1> QED
  BY <1>2, <1>3, <1>4, <1>5, <1>6, <1>7, <1>8, <1>9, <1>10, <1>11

----------------------------------------------------------------------------
(* The walk. *)

LEMMA Addresses ==
    /\ \A i \in 1..10 : Address(i) \in Slots /\ Address(i) # 0
    /\ \A i, j \in 1..10 : Address(i) = Address(j) => i = j
    /\ Address(1) = ListStart
BY DEF Address, Slots, ListStart, Payload, PayloadBytes, TdBytes

LEMMA ListLinked ==
    ASSUME step \in 1..Len(Lists)
    PROVE  Linked(List)
BY ListWords DEF List

(* The list has been handed over at least once since the last one. *)
HandedOver == pointer # 0 \/ at # 0 \/ walked # <<>>

(* A writing under way has brought its first descriptors, and a list that  *)
(* was handed over is in memory and stays there: writing it again changes  *)
(* nothing. So the chip, wherever it is, is at the descriptor after those  *)
(* it has done.                                                            *)
WalkInv ==
    /\ TypeOK
    /\ \A i \in 1..Len(List) :
           i <= written \/ HandedOver => memory[Address(i)] = List[i]
    /\ \A i \in 1..Len(walked) : walked[i] = List[i]
    /\ at # 0 => Len(walked) < Len(List) /\ at = Address(Len(walked) + 1)
    /\ at = 0 => Len(walked) \in {0, Len(List)}

(* The places of a list's descriptors. *)
LEMMA ListPlaces ==
    ASSUME step \in 1..Len(Lists)
    PROVE  /\ Len(List) \in Nat /\ 1 <= Len(List) /\ Len(List) <= 10
           /\ \A i \in 1..Len(List) :
                  i \in 1..10 /\ List[i] \in Tds /\ Address(i) \in Slots /\ Address(i) # 0
<1>1. List \in Seq(Tds) /\ Len(List) \in 1..10
  BY ListLinked DEF Linked
<1>2. \A i \in 1..Len(List) : i \in 1..10 /\ List[i] \in Tds
  BY <1>1
<1>3. \A i \in 1..Len(List) : Address(i) \in Slots /\ Address(i) # 0
  BY <1>2, Addresses
<1>4. Len(List) \in Nat /\ 1 <= Len(List) /\ Len(List) <= 10
  <2>1. \A n \in 1..10 : n \in Nat /\ 1 <= n /\ n <= 10
    OBVIOUS
  <2> QED
    BY <1>1, <2>1
<1> QED
  BY <1>2, <1>3, <1>4

LEMMA WalkInit == Init => WalkInv
<1> SUFFICES ASSUME Init
             PROVE  WalkInv
  OBVIOUS
<1>1. step \in 1..Len(Lists) /\ step = 1
  BY ListWords DEF Init
<1>2. Linked(List)
  BY <1>1, ListLinked
<1>3. memory \in [Slots -> Tds]
  BY DEF Init, Nothing, Td, Tds
<1>4. RESENDS \in Nat /\ walked = <<>> /\ walked \in Seq(Tds)
  BY ResendsAssumption DEF Init
<1>5. TypeOK
  BY <1>1, <1>2, <1>3, <1>4 DEF Init, TypeOK, Linked
<1> QED
  BY <1>2, <1>4, <1>5 DEF Init, WalkInv, HandedOver, Linked

LEMMA WriteTdInv == WalkInv /\ WriteTd => WalkInv'
<1> SUFFICES ASSUME WalkInv, WriteTd
             PROVE  WalkInv'
  OBVIOUS
<1> DEFINE n == written + 1
<1>1. UNCHANGED <<step, pointer, resends, at, walked>> /\ List' = List
  BY DEF WriteTd, List
<1>2. /\ Len(List) \in Nat /\ written \in Nat
      /\ \A i \in 1..Len(List) : i \in 1..10 /\ List[i] \in Tds /\ Address(i) \in Slots
  BY ListPlaces DEF WalkInv, TypeOK
<1>3. n \in 1..Len(List) /\ written' = n
  BY <1>2 DEF WriteTd
<1>4. List[n] \in Tds /\ Address(n) \in Slots
  BY <1>2, <1>3
<1>5. memory' = [memory EXCEPT ![Address(n)] = List[n]] /\ memory \in [Slots -> Tds]
  BY DEF WriteTd, WalkInv, TypeOK
<1>6. \A i \in 1..Len(List) :
          memory'[Address(i)] = IF i = n THEN List[n] ELSE memory[Address(i)]
  BY <1>2, <1>3, <1>5, Addresses
<1>7. TypeOK'
  BY <1>1, <1>3, <1>4, <1>5 DEF WalkInv, TypeOK
<1>8. \A i \in 1..Len(List) : (i <= written \/ HandedOver)' => i = n \/ i <= written \/ HandedOver
  BY <1>1, <1>2, <1>3 DEF HandedOver
<1> HIDE DEF n
<1> QED
  BY <1>1, <1>6, <1>7, <1>8 DEF WalkInv

LEMMA HandOverInv == WalkInv /\ HandOver => WalkInv'
<1> SUFFICES ASSUME WalkInv, HandOver
             PROVE  WalkInv'
  OBVIOUS
<1>1. /\ UNCHANGED <<step, memory, resends, at, walked>> /\ List' = List
      /\ written = Len(List) /\ written' = 0 /\ pointer' = ListStart
  BY DEF HandOver, List
<1>2. Linked(List)
  BY ListLinked DEF WalkInv, TypeOK
<1>3. \A i \in 1..Len(List) : memory[Address(i)] = List[i]
  BY <1>1, <1>2 DEF WalkInv, Linked
<1>4. TypeOK'
  BY <1>1, <1>2 DEF WalkInv, TypeOK, Linked
<1> QED
  BY <1>1, <1>3, <1>4 DEF WalkInv

LEMMA ResendInv == WalkInv /\ Resend => WalkInv'
<1> SUFFICES ASSUME WalkInv, Resend
             PROVE  WalkInv'
  OBVIOUS
<1>1. UNCHANGED <<step, pointer, at, walked>> /\ List' = List /\ written' = 1
  BY DEF Resend, List
<1>2. Len(List) \in Nat /\ 1 <= Len(List)
  BY ListPlaces DEF WalkInv, TypeOK
<1>3. \A i \in 1..Len(List) : memory[Address(i)] = List[i]
  BY DEF WalkInv, HandedOver, Resend
<1>4. memory \in [Slots -> Tds] /\ ListStart \in Slots /\ memory[ListStart] = List[1]
  <2>1. 1 \in 1..Len(List)
    BY <1>2
  <2>2. memory[Address(1)] = List[1]
    BY <1>3, <2>1
  <2> QED
    BY <2>2, Addresses DEF WalkInv, TypeOK
<1>5. memory' = memory
  BY <1>4 DEF Resend
<1>6. TypeOK'
  <2>1. 1 \in 0..Len(List) /\ resends' \in 0..RESENDS
    BY <1>2, ResendsAssumption DEF WalkInv, TypeOK, Resend
  <2> QED
    BY <1>1, <1>5, <2>1 DEF WalkInv, TypeOK
<1> QED
  BY <1>1, <1>3, <1>5, <1>6 DEF WalkInv

LEMMA TakeInv == WalkInv /\ Take => WalkInv'
<1> SUFFICES ASSUME WalkInv, Take
             PROVE  WalkInv'
  OBVIOUS
<1>1. /\ UNCHANGED <<step, memory, written, resends>> /\ List' = List
      /\ at' = ListStart /\ pointer' = 0 /\ walked' = <<>>
  BY DEF Take, List, WalkInv, TypeOK
<1>2. Len(List) \in Nat /\ 1 <= Len(List)
  BY ListPlaces DEF WalkInv, TypeOK
<1>3. \A i \in 1..Len(List) : memory[Address(i)] = List[i]
  BY DEF WalkInv, HandedOver, Take
<1>4. ListStart \in Slots /\ ListStart # 0 /\ ListStart = Address(1)
  BY Addresses
<1>5. Len(walked') = 0 /\ walked' \in Seq(Tds)
  BY <1>1
<1>6. TypeOK'
  BY <1>1, <1>2, <1>4, <1>5 DEF WalkInv, TypeOK
<1>7. at' # 0 => Len(walked') < Len(List) /\ at' = Address(Len(walked') + 1)
  BY <1>1, <1>2, <1>4, <1>5
<1> QED
  BY <1>1, <1>3, <1>4, <1>5, <1>6, <1>7 DEF WalkInv

(* The descriptor the chip does is the list's next, and so is its pointer. *)
LEMMA WalkStepInv == WalkInv /\ Walk => WalkInv'
<1> SUFFICES ASSUME WalkInv, Walk
             PROVE  WalkInv'
  OBVIOUS
<1> DEFINE n == Len(walked) + 1
<1>1. /\ UNCHANGED <<step, memory, written, pointer, resends>> /\ List' = List
      /\ at # 0 /\ walked' = Append(walked, memory[at]) /\ at' = memory[at].next
  BY DEF Walk, List
<1>2. Linked(List)
  BY ListLinked DEF WalkInv, TypeOK
<1>3. \A i \in 1..Len(List) : memory[Address(i)] = List[i]
  BY <1>1 DEF WalkInv, HandedOver
<1>4. walked \in Seq(Tds) /\ n \in 1..Len(List) /\ n \in 1..10 /\ Len(walked) \in Nat
  BY <1>1, <1>2 DEF WalkInv, TypeOK, Linked
<1>5. memory[at] = List[n] /\ List[n] \in Tds
  BY <1>1, <1>2, <1>3, <1>4 DEF WalkInv, Linked
<1>6. at' = IF n < Len(List) THEN Address(n + 1) ELSE 0
  BY <1>1, <1>2, <1>4, <1>5 DEF Linked
<1>7. /\ walked' \in Seq(Tds) /\ Len(walked') = n /\ walked' # <<>>
      /\ \A i \in 1..n : walked'[i] = IF i = n THEN List[n] ELSE walked[i]
  BY <1>1, <1>4, <1>5
<1>8. n < Len(List) => n + 1 \in 1..10 /\ Address(n + 1) \in Slots /\ Address(n + 1) # 0
  <2>1. n < Len(List) => n + 1 \in 1..Len(List)
    BY <1>4
  <2> QED
    BY <2>1, ListPlaces DEF WalkInv, TypeOK
<1>9. TypeOK'
  BY <1>1, <1>4, <1>6, <1>7, <1>8 DEF WalkInv, TypeOK
<1>10. \A i \in 1..Len(walked') : walked'[i] = List[i]
  BY <1>4, <1>7 DEF WalkInv
<1>11. at' # 0 => Len(walked') < Len(List) /\ at' = Address(Len(walked') + 1)
  BY <1>4, <1>6, <1>7
<1>12. at' = 0 => Len(walked') \in {0, Len(List)}
  BY <1>4, <1>6, <1>7, <1>8
<1> HIDE DEF n
<1> QED
  BY <1>1, <1>3, <1>9, <1>10, <1>11, <1>12 DEF WalkInv

LEMMA ProceedInv == WalkInv /\ Proceed => WalkInv'
<1> SUFFICES ASSUME WalkInv, Proceed
             PROVE  WalkInv'
  OBVIOUS
<1>1. /\ UNCHANGED <<memory, written, pointer, at>> /\ written = 0 /\ pointer = 0 /\ at = 0
      /\ resends' = 0 /\ walked' = <<>>
  BY DEF Proceed
<1>2. step' \in 1..Len(Lists)
  BY ListWords DEF Proceed, WalkInv, TypeOK
<1>3. Linked(List)'
  BY <1>2, ListWords DEF List
<1>4. Len(walked') = 0 /\ walked' \in Seq(Tds)
  BY <1>1
<1>5. TypeOK'
  BY <1>1, <1>2, <1>3, <1>4, ResendsAssumption DEF WalkInv, TypeOK, Linked
<1>6. ~HandedOver' /\ \A i \in 1..Len(List') : ~(i <= written')
  BY <1>1, <1>3 DEF HandedOver, Linked
<1> QED
  BY <1>1, <1>4, <1>5, <1>6 DEF WalkInv

LEMMA WalkNext == WalkInv /\ [Next]_vars => WalkInv'
<1> SUFFICES ASSUME WalkInv, [Next]_vars
             PROVE  WalkInv'
  OBVIOUS
<1>1. CASE UNCHANGED vars
  BY <1>1 DEF vars, WalkInv, TypeOK, HandedOver, List
<1> QED
  BY <1>1, WriteTdInv, HandOverInv, ResendInv, TakeInv, WalkStepInv, ProceedInv DEF Next

LEMMA WalkAlways == Spec => []WalkInv
BY WalkInit, WalkNext, PTL DEF Spec

----------------------------------------------------------------------------
(* Every descriptor the chip comes to is one the list's writing reaches, and *)
(* its walk is no longer than the list (usb.c 104-522).                      *)
THEOREM TypeCorrect == Spec => []TypeOK
<1>1. WalkInv => TypeOK
  BY DEF WalkInv
<1> QED
  BY <1>1, WalkAlways, PTL

(* The chip does the list's descriptors in their order and all of them,    *)
(* however often the list is written again under it (usb.c 104-522,        *)
(* usb_keyboard.c 220-520).                                                *)
THEOREM WalkCorrect == Spec => []WalkFollowsList
<1>1. WalkInv => WalkFollowsList
  <2> SUFFICES ASSUME WalkInv
               PROVE  WalkFollowsList
    OBVIOUS
  <2>1. Linked(List)
    BY ListLinked DEF WalkInv, TypeOK
  <2>2. /\ walked \in Seq(Tds) /\ List \in Seq(Tds) /\ Len(walked) <= Len(List)
        /\ \A i \in 1..Len(walked) : walked[i] = List[i]
    BY <2>1 DEF WalkInv, TypeOK, Linked
  <2>3. IsPrefix(walked, List)
    BY <2>2 DEF IsPrefix
  <2>4. (at = 0 /\ walked # <<>>) => walked = List
    <3> SUFFICES ASSUME at = 0, walked # <<>>
                 PROVE  walked = List
      OBVIOUS
    <3>1. Len(walked) = Len(List)
      BY <2>2 DEF WalkInv
    <3> QED
      BY <2>2, <3>1
  <2> QED
    BY <2>3, <2>4 DEF WalkFollowsList, WalkInv
<1> QED
  BY <1>1, WalkAlways, PTL

(* What the words of the list in use say. *)
LEMMA StageInUse ==
    ASSUME TypeOK
    PROVE  \E first, last \in Nat :
               /\ Stage(Lists[step], first, last)
               /\ step \in 1..7 => Whole(Lists[step], first, last)
               /\ Enclosed(List, first, last)
               /\ DataAt = first..last
<1>1. step \in 1..11
  BY ListWords DEF TypeOK
<1>2. PICK first, last \in Nat :
          /\ Stage(Lists[step], first, last)
          /\ step \in 1..7 => Whole(Lists[step], first, last)
          /\ Enclosed(Lists[step].tds, first, last)
  BY <1>1, ListWords
<1>3. List \in Seq(Tds) /\ DOMAIN List = 1..Len(List)
  BY ListLinked DEF TypeOK, Linked
<1>4. DataAt = first..last
  BY <1>2, <1>3 DEF DataAt, List, Stage
<1> QED
  BY <1>2, <1>4 DEF List

(* The data of a request arrives in one stage and one block, and never more *)
(* than the request asks for (usb.c 104-522).                               *)
THEOREM DataCovered == Spec => []DataCoversRequest
<1>1. WalkInv => DataCoversRequest
  <2> SUFFICES ASSUME WalkInv
               PROVE  DataCoversRequest
    OBVIOUS
  <2>1. PICK first, last \in Nat :
            /\ Stage(Lists[step], first, last)
            /\ step \in 1..7 => Whole(Lists[step], first, last)
            /\ Enclosed(List, first, last)
            /\ DataAt = first..last
    BY StageInUse DEF WalkInv
  <2>2. \A i \in DataAt :
            i + 1 \in DataAt => List[i + 1].buffer = List[i].buffer + List[i].length
    BY <2>1 DEF Stage, List
  <2>3. ASSUME NEW f \in DataAt, NEW l \in DataAt, DataAt \subseteq f..l
        PROVE  f = first /\ l = last /\ first <= last
    <3>1. first \in f..l /\ last \in f..l /\ f \in first..last /\ l \in first..last
      BY <2>1, <2>3
    <3> QED
      BY <3>1
  <2>4. DataAt = {} => ~(first <= last)
    BY <2>1
  <2> QED
    BY <2>1, <2>2, <2>3, <2>4 DEF DataCoversRequest, Stage, Whole, List
<1> QED
  BY <1>1, WalkAlways, PTL

(* What arrives never lands in the list it is asked for with, nor in the    *)
(* request's eight bytes (usb.c 104-522).                                   *)
THEOREM BuffersClear == Spec => []BuffersClearOfList
<1>1. WalkInv => BuffersClearOfList
  BY StageInUse DEF WalkInv, BuffersClearOfList, Stage, List
<1> QED
  BY <1>1, WalkAlways, PTL

(* Toggles alternate from DATA0, and the end of a request goes in the other *)
(* direction with DATA1 (usb.c 104-522).                                    *)
THEOREM TogglesCorrect == Spec => []TogglesAlternate
<1>1. WalkInv => TogglesAlternate
  <2> SUFFICES ASSUME WalkInv
               PROVE  TogglesAlternate
    OBVIOUS
  <2>1. PICK first, last \in Nat :
            /\ Stage(Lists[step], first, last)
            /\ Enclosed(List, first, last)
            /\ DataAt = first..last
    BY StageInUse DEF WalkInv
  <2>2. \A i \in DataAt : i + 1 \in DataAt => List[i].control # List[i + 1].control
    BY <2>1 DEF Stage, List
  <2>3. (first <= last) <=> (DataAt # {})
    BY <2>1
  <2> QED
    BY <2>1, <2>2, <2>3 DEF TogglesAlternate, Enclosed
<1> QED
  BY <1>1, WalkAlways, PTL
=============================================================================
