-------------------------- MODULE HpiBridgeProofs --------------------------
(***************************************************************************)
(* For every set of registers and words, every pace GAP of the program and *)
(* every time KEEP the bus holds its value: the properties of HpiBridge    *)
(* and its refinement of HpiRegisters.                                     *)
(*                                                                         *)
(* What the ports and, an edge later, the pins hold is a function of the   *)
(* program's place; the properties follow from that.                       *)
(***************************************************************************)
EXTENDS HpiBridge, TLAPS

(* The ports at every place of the program. *)
PortsInv ==
    /\ op = "init" =>
           /\ pc > 3 => sw["r"] = 1
           /\ pc > 4 => sw["w"] = 1
    /\ op = "idle" => pc = 1 /\ sw["cs"] = 1 /\ sw["r"] = 1 /\ sw["w"] = 1
    /\ op = "write" =>
           /\ pc <= 6
           /\ sw["cs"] = IF pc \in 4..6 THEN 0 ELSE 1
           /\ sw["r"] = 1
           /\ sw["w"] = IF pc = 5 THEN 0 ELSE 1
           /\ pc > 1 => sw["address"] = address
           /\ pc > 2 => sw["data_out"] = data
    /\ op = "read" =>
           /\ pc <= 6
           /\ sw["cs"] = IF pc \in 3..6 THEN 0 ELSE 1
           /\ sw["r"] = IF pc \in 4..5 THEN 0 ELSE 1
           /\ sw["w"] = 1
           /\ pc > 1 => sw["address"] = address

(* The pins follow the ports; right after an access they are those of the *)
(* place before.                                                          *)
PinsInv ==
    /\ gap >= 1 => otg = sw
    /\ gap = 0 =>
           /\ op = "idle" => otg["r"] = 1 /\ otg["w"] = 1
           /\ op = "write" =>
                  /\ otg["r"] = 1
                  /\ pc # 6 => otg["w"] = 1
                  /\ pc = 6 => otg["w"] = 0 /\ otg["cs"] = 0 /\ otg["address"] = address
           /\ op = "read" =>
                  /\ otg["w"] = 1
                  /\ pc < 4 => otg["r"] = 1

(* The word is on the bus when the strobe rises, and taken at that edge. *)
WriteInv ==
    op = "write" =>
        /\ pc # 6 \/ gap = 0 => ~taken
        /\ pc = 6 /\ gap >= 1 => taken
        /\ pc = 6 /\ gap = 0 => kept = data /\ age = 0

(* The register's value comes back in two edges. *)
ReadInv ==
    op = "read" =>
        /\ regs[address] \in seen
        /\ pc = 4 /\ gap >= 2 => data_in \in seen
        /\ pc = 4 /\ gap >= 3 => readdata \in seen
        /\ pc > 4 => temp \in seen

IInv == TypeOK /\ PortsInv /\ PinsInv /\ WriteInv /\ ReadInv

----------------------------------------------------------------------------
(* The bus. *)

(* Nothing is written where no port is driven twice (hpi_io_intf.sv 38). *)
LEMMA NoContentionHolds ==
    ASSUME IInv
    PROVE  NoContention
BY PaceAssumption
DEF IInv, TypeOK, PortsInv, PinsInv, NoContention, FpgaDrives, ChipDrives

LEMMA LatchesCallsWord ==
    ASSUME IInv
    PROVE  TakesOnlyTheCallsWord /\ (Latches => gap = 0)
BY PaceAssumption, KeepAssumption
DEF IInv, TypeOK, IsPorts, PortsInv, PinsInv, WriteInv, TakesOnlyTheCallsWord, Latches, Bus,
    FpgaDrives, ChipDrives

LEMMA BusType ==
    ASSUME IInv
    PROVE  Bus \in Data \cup {Floating}
BY DEF IInv, TypeOK, IsPorts, Bus, FpgaDrives, ChipDrives

(* What a read finds on the bus once the pins have settled. *)
LEMMA BusOfRead ==
    ASSUME IInv, op = "read", pc = 4, gap >= 1
    PROVE  Bus \in seen
BY DEF IInv, TypeOK, PortsInv, PinsInv, ReadInv, Bus, FpgaDrives, ChipDrives

(* What a write leaves on the bus before the strobe rises. *)
LEMMA BusOfWrite ==
    ASSUME IInv, op = "write", pc = 5, gap >= 1
    PROVE  Bus = data /\ FpgaDrives
BY DEF IInv, TypeOK, PortsInv, PinsInv, Bus, FpgaDrives

----------------------------------------------------------------------------
(* The invariant. *)

LEMMA ResetPorts ==
    /\ IsPorts(PortsReset)
    /\ IsPorts(BridgeReset)
<1>1. PortsReset["address"] = 0 /\ PortsReset["data_out"] = 0
  BY DEF PortsReset, Ports
<1>2. BridgeReset["address"] = 0 /\ BridgeReset["data_out"] = 0
  BY DEF BridgeReset, Ports
<1>3. \A line \in Lines : PortsReset[line] \in Bit /\ BridgeReset[line] \in Bit
  BY DEF PortsReset, BridgeReset, Ports, Lines, Bit
<1>4. DOMAIN PortsReset = Ports /\ DOMAIN BridgeReset = Ports
  BY DEF PortsReset, BridgeReset
<1> QED
  BY <1>1, <1>2, <1>3, <1>4, BusAssumption DEF IsPorts

LEMMA InitInv == Init => IInv
<1> SUFFICES ASSUME Init
             PROVE  IInv
  OBVIOUS
<1>1. TypeOK
  <2>1. IsPorts(sw) /\ IsPorts(otg)
    BY ResetPorts DEF Init
  <2>2. age \in 0..KEEP /\ gap \in 0..GAP
    BY PaceAssumption, KeepAssumption DEF Init
  <2>3. taken \in BOOLEAN
    BY DEF Init
  <2> QED
    BY <2>1, <2>2, <2>3, BusAssumption DEF Init, TypeOK
<1>2. PortsInv /\ PinsInv /\ WriteInv /\ ReadInv
  BY DEF Init, PortsInv, PinsInv, WriteInv, ReadInv
<1> QED
  BY <1>1, <1>2 DEF IInv

LEMMA CallInv == IInv /\ Call => IInv'
<1> SUFFICES ASSUME IInv, Call
             PROVE  IInv'
  OBVIOUS
<1>1. TypeOK'
  <2>1. seen' \subseteq Data
    BY DEF Call, IInv, TypeOK
  <2> QED
    BY <2>1 DEF Call, IInv, TypeOK, IsPorts
<1>2. PortsInv'
  BY DEF Call, IInv, PortsInv
<1>3. PinsInv'
  BY DEF Call, IInv, PortsInv, PinsInv
<1>4. WriteInv' /\ ReadInv'
  BY DEF Call, IInv, PortsInv, WriteInv, ReadInv
<1> QED
  BY <1>1, <1>2, <1>3, <1>4 DEF IInv

LEMMA ChipChangesInv == IInv /\ ChipChanges => IInv'
BY DEF ChipChanges, IInv, TypeOK, IsPorts, PortsInv, PinsInv, WriteInv, ReadInv

LEMMA ResetInv == IInv /\ Reset => IInv'
<1> SUFFICES ASSUME IInv, Reset
             PROVE  IInv'
  OBVIOUS
<1>1. TypeOK'
  BY ResetPorts, BusAssumption, PaceAssumption DEF Reset, IInv, TypeOK, IsPorts
<1>2. PortsInv' /\ PinsInv' /\ WriteInv' /\ ReadInv'
  BY DEF Reset, PortsInv, PinsInv, WriteInv, ReadInv
<1> QED
  BY <1>1, <1>2 DEF IInv

LEMMA ClockType ==
    ASSUME IInv, Clock
    PROVE  /\ IsPorts(otg)'
           /\ data_in' \in Data \cup {Floating}
           /\ readdata' \in Data \cup {Floating}
           /\ kept' \in Data \cup {Floating}
           /\ age' \in 0..KEEP
           /\ regs' \in [Addresses -> Data]
<1>1. Bus \in Data \cup {Floating}
  BY BusType
<1>2. Latches => Bus \in Data
  BY LatchesCallsWord DEF TakesOnlyTheCallsWord, IInv, TypeOK
<1>3. IsPorts(otg)'
  BY DEF IInv, TypeOK, IsPorts, Clock
<1>4. kept' \in Data \cup {Floating}
  BY <1>1 DEF IInv, TypeOK, Clock
<1>5. age' \in 0..KEEP
  BY KeepAssumption DEF IInv, TypeOK, Clock
<1>6. regs' \in [Addresses -> Data]
  BY <1>2 DEF IInv, TypeOK, Clock
<1>7. data_in' \in Data \cup {Floating} /\ readdata' \in Data \cup {Floating}
  BY <1>1 DEF IInv, TypeOK, Clock
<1> QED
  BY <1>3, <1>4, <1>5, <1>6, <1>7

LEMMA NoAccessInv == IInv /\ Edge /\ NoAccess => IInv'
<1> SUFFICES ASSUME IInv, Edge, NoAccess
             PROVE  IInv'
  OBVIOUS
<1>1. TypeOK'
  BY ClockType, PaceAssumption DEF IInv, TypeOK, IsPorts, Edge, NoAccess
<1>2. PortsInv'
  BY DEF IInv, PortsInv, Edge, NoAccess
<1>3. PinsInv'
  BY PaceAssumption DEF IInv, TypeOK, PinsInv, Edge, NoAccess, Clock
<1>4. WriteInv'
  <2>1. op = "write" /\ pc = 6 /\ gap = 0 => Latches
    BY DEF IInv, PortsInv, PinsInv, Latches, Edge, TypeOK
  <2>2. op' = op /\ pc' = pc /\ data' = data /\ gap' >= 1
    BY PaceAssumption DEF IInv, TypeOK, Edge, NoAccess
  <2>3. ASSUME op = "write", pc # 6
        PROVE  ~taken'
    <3>1. ~Latches /\ ~taken
      BY <2>3, LatchesCallsWord DEF TakesOnlyTheCallsWord, IInv, WriteInv
    <3> QED
      BY <3>1 DEF Edge
  <2>4. ASSUME op = "write", pc = 6
        PROVE  taken'
    <3>1. Latches \/ taken
      BY <2>1, <2>4 DEF IInv, WriteInv, TypeOK
    <3> QED
      BY <3>1 DEF Edge
  <2> QED
    BY <2>2, <2>3, <2>4 DEF WriteInv, IInv, TypeOK
<1>5. ReadInv'
  <2>1. op = "read" => regs' = regs
    BY LatchesCallsWord DEF TakesOnlyTheCallsWord, Edge, Clock
  <2>2. op = "read" /\ pc = 4 /\ gap >= 1 => data_in' \in seen
    BY BusOfRead DEF Edge, Clock
  <2>3. op = "read" /\ pc = 4 /\ gap >= 2 => readdata' \in seen
    BY DEF Edge, Clock, IInv, ReadInv
  <2> QED
    BY <2>1, <2>2, <2>3, PaceAssumption DEF IInv, TypeOK, ReadInv, Edge, NoAccess
<1> QED
  BY <1>1, <1>2, <1>3, <1>4, <1>5 DEF IInv

(* An access comes when everything has settled: the chip takes nothing. *)
LEMMA AccessSettled ==
    ASSUME IInv, Edge, Access
    PROVE  /\ otg = sw /\ otg' = sw
           /\ ~Latches /\ regs' = regs /\ taken' = taken
           /\ gap = GAP /\ gap' = 0
           /\ address' = address /\ data' = data /\ seen' = seen
           /\ IsPorts(otg)'
<1>1. gap = GAP /\ gap' = 0
  BY DEF Access
<1>2. ~Latches
  BY <1>1, LatchesCallsWord, PaceAssumption
<1> QED
  BY <1>1, <1>2, PaceAssumption, ClockType DEF IInv, TypeOK, PinsInv, Edge, Clock

(* What an access leaves in the ports. *)
LEMMA PutPorts ==
    ASSUME NEW port \in Ports, NEW value, IsPorts(sw), Put(port, value),
           IF port = "address" THEN value \in Addresses
           ELSE IF port = "data_out" THEN value \in Data
           ELSE value \in Bit
    PROVE  /\ IsPorts(sw)'
           /\ sw'[port] = value
           /\ \A other \in Ports \ {port} : sw'[other] = sw[other]
           /\ temp' = temp
BY DEF Put, IsPorts, Ports, Lines, Bit

LEMMA InitAccessPorts ==
    ASSUME IInv, Edge, Access, op = "init"
    PROVE  /\ InitAccess
           /\ IF pc = 10 THEN op' = "idle" /\ pc' = 1 ELSE op' = op /\ pc' = pc + 1
           /\ pc \in 1..10 /\ IsPorts(sw)
           /\ IsPorts(sw)' /\ temp' = temp
           /\ (pc # 3 /\ pc < 10 => sw'["r"] = sw["r"]) /\ (pc = 3 => sw'["r"] = 1)
           /\ (pc # 4 /\ pc < 10 => sw'["w"] = sw["w"]) /\ (pc = 4 => sw'["w"] = 1)
           /\ (pc = 10 => sw'["cs"] = 1 /\ sw'["r"] = sw["r"] /\ sw'["w"] = sw["w"])
<1>1. InitAccess
  BY DEF Access
<1>2. IF pc = 10 THEN op' = "idle" /\ pc' = 1 ELSE op' = op /\ pc' = pc + 1
  BY DEF Access, LastAccess
<1>3. pc \in 1..10 /\ IsPorts(sw)
  BY DEF IInv, TypeOK
<1>4. IsPorts(sw)' /\ temp' = temp
      /\ (pc # 3 /\ pc < 10 => sw'["r"] = sw["r"]) /\ (pc = 3 => sw'["r"] = 1)
      /\ (pc # 4 /\ pc < 10 => sw'["w"] = sw["w"]) /\ (pc = 4 => sw'["w"] = 1)
      /\ (pc = 10 => sw'["cs"] = 1 /\ sw'["r"] = sw["r"] /\ sw'["w"] = sw["w"])
  <2> USE DEF Ports, Bit
  <2>1. CASE pc = 1
    BY <2>1, <1>1, <1>3, PutPorts DEF InitAccess
  <2>2. CASE pc = 2
    BY <2>2, <1>1, <1>3, PutPorts DEF InitAccess
  <2>3. CASE pc = 3
    BY <2>3, <1>1, <1>3, PutPorts DEF InitAccess
  <2>4. CASE pc = 4
    BY <2>4, <1>1, <1>3, PutPorts DEF InitAccess
  <2>5. CASE pc = 5
    BY <2>5, <1>1, <1>3, PutPorts, BusAssumption DEF InitAccess
  <2>6. CASE pc = 6
    BY <2>6, <1>1, <1>3, PutPorts, BusAssumption DEF InitAccess
  <2>7. CASE pc = 7
    BY <2>7, <1>1, <1>3, PutPorts DEF InitAccess
  <2>8. CASE pc = 8
    BY <2>8, <1>1, <1>3, PutPorts DEF InitAccess
  <2>9. CASE pc = 9
    BY <2>9, <1>1, <1>3, PutPorts DEF InitAccess
  <2>10. CASE pc = 10
    BY <2>10, <1>1, <1>3, PutPorts DEF InitAccess
  <2> QED
    BY <1>3, <2>1, <2>2, <2>3, <2>4, <2>5, <2>6, <2>7, <2>8, <2>9, <2>10
<1> QED
  BY <1>1, <1>2, <1>3, <1>4

LEMMA InitAccessInv ==
    ASSUME IInv, Edge, Access, op = "init"
    PROVE  IInv'
<1>1. TypeOK'
  BY InitAccessPorts, ClockType, AccessSettled, PaceAssumption DEF IInv, TypeOK, IsPorts, Edge
<1>2. PortsInv'
  BY InitAccessPorts DEF IInv, PortsInv
<1>3. PinsInv'
  BY InitAccessPorts, AccessSettled DEF IInv, PortsInv, PinsInv
<1> QED
  BY InitAccessPorts, <1>1, <1>2, <1>3 DEF IInv, WriteInv, ReadInv

LEMMA WriteAccessPorts ==
    ASSUME IInv, Edge, Access, op = "write"
    PROVE  /\ WriteAccess
           /\ IF pc = 6 THEN op' = "idle" /\ pc' = 1 ELSE op' = op /\ pc' = pc + 1
           /\ pc \in 1..6 /\ IsPorts(sw) /\ address \in Addresses /\ data \in Data
           /\ IsPorts(sw)' /\ temp' = temp
           /\ sw'["r"] = sw["r"]
           /\ sw'["w"] = (IF pc = 4 THEN 0 ELSE IF pc = 5 THEN 1 ELSE sw["w"])
           /\ sw'["cs"] = (IF pc = 3 THEN 0 ELSE IF pc = 6 THEN 1 ELSE sw["cs"])
           /\ sw'["address"] = (IF pc = 1 THEN address ELSE sw["address"])
           /\ sw'["data_out"] = (IF pc = 2 THEN data ELSE sw["data_out"])
<1>1. WriteAccess
  BY DEF Access
<1>2. IF pc = 6 THEN op' = "idle" /\ pc' = 1 ELSE op' = op /\ pc' = pc + 1
  BY DEF Access, LastAccess
<1>3. pc \in 1..6 /\ IsPorts(sw) /\ address \in Addresses /\ data \in Data
  BY DEF IInv, TypeOK, PortsInv
<1>4. IsPorts(sw)' /\ temp' = temp
      /\ sw'["r"] = sw["r"]
      /\ sw'["w"] = (IF pc = 4 THEN 0 ELSE IF pc = 5 THEN 1 ELSE sw["w"])
      /\ sw'["cs"] = (IF pc = 3 THEN 0 ELSE IF pc = 6 THEN 1 ELSE sw["cs"])
      /\ sw'["address"] = (IF pc = 1 THEN address ELSE sw["address"])
      /\ sw'["data_out"] = (IF pc = 2 THEN data ELSE sw["data_out"])
  <2> USE DEF Ports, Bit
  <2>1. CASE pc = 1
    BY <2>1, <1>1, <1>3, PutPorts DEF WriteAccess
  <2>2. CASE pc = 2
    BY <2>2, <1>1, <1>3, PutPorts DEF WriteAccess
  <2>3. CASE pc = 3
    BY <2>3, <1>1, <1>3, PutPorts DEF WriteAccess
  <2>4. CASE pc = 4
    BY <2>4, <1>1, <1>3, PutPorts DEF WriteAccess
  <2>5. CASE pc = 5
    BY <2>5, <1>1, <1>3, PutPorts DEF WriteAccess
  <2>6. CASE pc = 6
    BY <2>6, <1>1, <1>3, PutPorts DEF WriteAccess
  <2> QED
    BY <1>3, <2>1, <2>2, <2>3, <2>4, <2>5, <2>6
<1> QED
  BY <1>1, <1>2, <1>3, <1>4

LEMMA WriteAccessInv ==
    ASSUME IInv, Edge, Access, op = "write"
    PROVE  IInv'
<1>1. TypeOK'
  BY WriteAccessPorts, ClockType, AccessSettled, PaceAssumption
  DEF IInv, TypeOK, IsPorts, Edge
<1>2. PortsInv'
  BY WriteAccessPorts, AccessSettled DEF IInv, PortsInv
<1>3. PinsInv'
  BY WriteAccessPorts, AccessSettled DEF IInv, PortsInv, PinsInv
<1>4. WriteInv'
  <2>1. pc = 5 => kept' = data /\ age' = 0
    BY BusOfWrite, AccessSettled, PaceAssumption DEF Edge, Clock
  <2>2. pc < 6 => ~taken
    BY WriteAccessPorts DEF IInv, WriteInv
  <2> QED
    BY WriteAccessPorts, <2>1, <2>2, AccessSettled DEF WriteInv
<1> QED
  BY WriteAccessPorts, <1>1, <1>2, <1>3, <1>4 DEF IInv, ReadInv

LEMMA ReadAccessPorts ==
    ASSUME IInv, Edge, Access, op = "read"
    PROVE  /\ ReadAccess
           /\ IF pc = 6 THEN op' = "idle" /\ pc' = 1 ELSE op' = op /\ pc' = pc + 1
           /\ pc \in 1..6 /\ IsPorts(sw) /\ address \in Addresses
           /\ IsPorts(sw)'
           /\ temp' = (IF pc = 4 THEN readdata ELSE temp)
           /\ sw'["w"] = sw["w"]
           /\ sw'["r"] = (IF pc = 3 THEN 0 ELSE IF pc = 5 THEN 1 ELSE sw["r"])
           /\ sw'["cs"] = (IF pc = 2 THEN 0 ELSE IF pc = 6 THEN 1 ELSE sw["cs"])
           /\ sw'["address"] = (IF pc = 1 THEN address ELSE sw["address"])
<1>1. ReadAccess
  BY DEF Access
<1>2. IF pc = 6 THEN op' = "idle" /\ pc' = 1 ELSE op' = op /\ pc' = pc + 1
  BY DEF Access, LastAccess
<1>3. pc \in 1..6 /\ IsPorts(sw) /\ address \in Addresses
  BY DEF IInv, TypeOK, PortsInv
<1>4. IsPorts(sw)'
      /\ temp' = (IF pc = 4 THEN readdata ELSE temp)
      /\ sw'["w"] = sw["w"]
      /\ sw'["r"] = (IF pc = 3 THEN 0 ELSE IF pc = 5 THEN 1 ELSE sw["r"])
      /\ sw'["cs"] = (IF pc = 2 THEN 0 ELSE IF pc = 6 THEN 1 ELSE sw["cs"])
      /\ sw'["address"] = (IF pc = 1 THEN address ELSE sw["address"])
  <2> USE DEF Ports, Bit
  <2>1. CASE pc = 1
    BY <2>1, <1>1, <1>3, PutPorts DEF ReadAccess
  <2>2. CASE pc = 2
    BY <2>2, <1>1, <1>3, PutPorts DEF ReadAccess
  <2>3. CASE pc = 3
    BY <2>3, <1>1, <1>3, PutPorts DEF ReadAccess
  <2>4. CASE pc = 4
    BY <2>4, <1>1, <1>3 DEF ReadAccess, Fetch, IsPorts
  <2>5. CASE pc = 5
    BY <2>5, <1>1, <1>3, PutPorts DEF ReadAccess
  <2>6. CASE pc = 6
    BY <2>6, <1>1, <1>3, PutPorts DEF ReadAccess
  <2> QED
    BY <1>3, <2>1, <2>2, <2>3, <2>4, <2>5, <2>6
<1> QED
  BY <1>1, <1>2, <1>3, <1>4

LEMMA ReadAccessInv ==
    ASSUME IInv, Edge, Access, op = "read"
    PROVE  IInv'
<1>1. TypeOK'
  BY ReadAccessPorts, ClockType, AccessSettled, PaceAssumption
  DEF IInv, TypeOK, IsPorts, Edge
<1>2. PortsInv'
  BY ReadAccessPorts, AccessSettled DEF IInv, PortsInv
<1>3. PinsInv'
  BY ReadAccessPorts, AccessSettled DEF IInv, PortsInv, PinsInv
<1>4. ReadInv'
  <2>1. pc = 4 => readdata \in seen
    BY AccessSettled, PaceAssumption DEF IInv, ReadInv
  <2> QED
    BY ReadAccessPorts, <2>1, AccessSettled DEF IInv, ReadInv
<1> QED
  BY ReadAccessPorts, <1>1, <1>2, <1>3, <1>4 DEF IInv, WriteInv

LEMMA NextInv == IInv /\ [Next]_vars => IInv'
<1> SUFFICES ASSUME IInv, [Next]_vars
             PROVE  IInv'
  OBVIOUS
<1>1. CASE Edge
  <2>1. CASE Access
    <3>1. op \in {"init", "write", "read"}
      BY <2>1 DEF Access, IInv, TypeOK
    <3> QED
      BY <1>1, <2>1, <3>1, InitAccessInv, WriteAccessInv, ReadAccessInv
  <2>2. CASE NoAccess
    BY <1>1, <2>2, NoAccessInv
  <2> QED
    BY <1>1, <2>1, <2>2 DEF Edge
<1>2. CASE Call
  BY <1>2, CallInv
<1>3. CASE ChipChanges
  BY <1>3, ChipChangesInv
<1>4. CASE Reset
  BY <1>4, ResetInv
<1>5. CASE UNCHANGED vars
  BY <1>5 DEF vars, IInv, TypeOK, IsPorts, PortsInv, PinsInv, WriteInv, ReadInv
<1> QED
  BY <1>1, <1>2, <1>3, <1>4, <1>5 DEF Next

LEMMA Invariant == Spec => []IInv
BY InitInv, NextInv, PTL DEF Spec

----------------------------------------------------------------------------
(* The properties. *)

(* The ports, the pins, the bus and the program's place have their types. *)
THEOREM TypeCorrect == Spec => []TypeOK
<1>1. IInv => TypeOK
  BY DEF IInv
<1> QED
  BY <1>1, Invariant, PTL

(* The bridge and the chip never drive the bus together. *)
THEOREM OneDriver == Spec => []NoContention
<1>1. IInv => NoContention
  BY NoContentionHolds
<1> QED
  BY <1>1, Invariant, PTL

(* The chip takes nothing but the word of an IO_write, once. *)
THEOREM WordsAreCalls == Spec => []TakesOnlyTheCallsWord
<1>1. IInv => TakesOnlyTheCallsWord
  BY LatchesCallsWord
<1> QED
  BY <1>1, Invariant, PTL

(* IO_read returns what the register held during the call. *)
THEOREM ReadsAreCurrent == Spec => []ReadIsCurrent
<1>1. IInv => ReadIsCurrent
  BY DEF IInv, ReadInv, ReadIsCurrent
<1> QED
  BY <1>1, Invariant, PTL

----------------------------------------------------------------------------
(* The refinement. *)

LEMMA CallCases ==
    ASSUME pc \in Nat
    PROVE  /\ op = "init" => AbstractCall = Registers!Starting
           /\ op = "idle" => AbstractCall = Registers!Idle
           /\ op = "write" => AbstractCall = Registers!Writing(address, data, taken)
           /\ op = "read" /\ pc <= 4 => AbstractCall = Registers!Reading(address, seen)
           /\ op = "read" /\ pc > 4 => AbstractCall = Registers!Answered
<1> USE DEF AbstractCall
<1>1. op = "init" => AbstractCall = Registers!Starting
  BY DEF Registers!Starting
<1>2. op = "idle" => AbstractCall = Registers!Idle
  BY DEF Registers!Idle
<1>3. op = "write" => AbstractCall = Registers!Writing(address, data, taken)
  BY DEF Registers!Writing
<1>4. op = "read" /\ pc <= 4 => AbstractCall = Registers!Reading(address, seen)
  BY DEF Registers!Reading
<1>5. op = "read" /\ pc > 4 => AbstractCall = Registers!Answered
  BY DEF Registers!Answered
<1> QED
  BY <1>1, <1>2, <1>3, <1>4, <1>5

LEMMA NextCallCases ==
    ASSUME pc' \in Nat
    PROVE  /\ op' = "init" => AbstractCall' = Registers!Starting
           /\ op' = "idle" => AbstractCall' = Registers!Idle
           /\ op' = "write" => AbstractCall' = Registers!Writing(address', data', taken')
           /\ op' = "read" /\ pc' <= 4 => AbstractCall' = Registers!Reading(address', seen')
           /\ op' = "read" /\ pc' > 4 => AbstractCall' = Registers!Answered
<1> USE DEF AbstractCall
<1>1. op' = "init" => AbstractCall' = Registers!Starting
  BY DEF Registers!Starting
<1>2. op' = "idle" => AbstractCall' = Registers!Idle
  BY DEF Registers!Idle
<1>3. op' = "write" => AbstractCall' = Registers!Writing(address', data', taken')
  BY DEF Registers!Writing
<1>4. op' = "read" /\ pc' <= 4 => AbstractCall' = Registers!Reading(address', seen')
  BY DEF Registers!Reading
<1>5. op' = "read" /\ pc' > 4 => AbstractCall' = Registers!Answered
  BY DEF Registers!Answered
<1> QED
  BY <1>1, <1>2, <1>3, <1>4, <1>5

LEMMA InitRefines == Init => Registers!Init
BY BusAssumption, CallCases DEF Init, Registers!Init, Registers!Starting

LEMMA TakenWriting ==
    ASSUME NEW a, NEW d, NEW t
    PROVE  [Registers!Writing(a, d, t) EXCEPT !.taken = TRUE]
               = Registers!Writing(a, d, TRUE)
<1> DEFINE old == Registers!Writing(a, d, t)
           new == [old EXCEPT !.taken = TRUE]
<1>1. DOMAIN old = {"kind", "address", "data", "taken"}
  BY DEF Registers!Writing
<1>2. new = [x \in {"kind", "address", "data", "taken"} |->
                 IF x = "taken" THEN TRUE ELSE old[x]]
  BY <1>1
<1>3. old["kind"] = "write" /\ old["address"] = a /\ old["data"] = d
  BY DEF Registers!Writing
<1>4. Registers!Writing(a, d, TRUE) = [x \in {"kind", "address", "data", "taken"} |->
                 IF x = "taken" THEN TRUE ELSE old[x]]
  <2> DEFINE word == Registers!Writing(a, d, TRUE)
  <2>1. word = [x \in {"kind", "address", "data", "taken"} |-> word[x]]
    BY DEF Registers!Writing
  <2>2. word["kind"] = "write" /\ word["address"] = a /\ word["data"] = d
    BY DEF Registers!Writing
  <2>3. word["taken"] = TRUE
    BY ZenonT(20) DEF Registers!Writing
  <2>4. \A x \in {"kind", "address", "data", "taken"} :
            word[x] = IF x = "taken" THEN TRUE ELSE old[x]
    BY <1>3, <2>2, <2>3, Zenon
  <2> HIDE DEF word
  <2>5. word = [x \in {"kind", "address", "data", "taken"} |->
                    IF x = "taken" THEN TRUE ELSE old[x]]
    BY <2>1, <2>4, Zenon
  <2> QED
    BY <2>5 DEF word
<1> QED
  BY <1>2, <1>4

(* An edge without an access: the chip takes the word, or nothing happens. *)
LEMMA NoAccessRefines ==
    ASSUME IInv, Edge, NoAccess
    PROVE  Registers!Take \/ UNCHANGED Registers!vars
<1>0. pc \in Nat /\ pc' \in Nat
  BY DEF NoAccess, IInv, TypeOK
<1>1. op' = op /\ pc' = pc /\ temp' = temp /\ address' = address /\ data' = data
      /\ seen' = seen
  BY DEF Edge, NoAccess
<1>2. CASE Latches
  <2>1. op = "write" /\ ~taken /\ taken'
        /\ regs' = [regs EXCEPT ![address] = data]
    BY <1>2, LatchesCallsWord DEF TakesOnlyTheCallsWord, Edge, Clock
  <2>2. /\ AbstractCall = Registers!Writing(address, data, taken)
        /\ AbstractCall' = Registers!Writing(address, data, taken')
    BY <1>0, <1>1, <2>1, CallCases, NextCallCases
  <2>3. AbstractCall' = [AbstractCall EXCEPT !.taken = TRUE]
    <3>1. AbstractCall' = Registers!Writing(address, data, TRUE)
      <4>1. taken' = TRUE
        BY <2>1 DEF Edge, IInv, TypeOK
      <4> QED
        BY <2>2, <4>1
    <3> QED
      BY <2>2, <3>1, TakenWriting
  <2>4. /\ AbstractCall.kind = "write" /\ ~AbstractCall.taken
        /\ AbstractCall.address = address /\ AbstractCall.data = data
    BY <2>1, <2>2 DEF Registers!Writing
  <2> QED
    BY <1>1, <2>1, <2>3, <2>4 DEF Registers!Take
<1>3. CASE ~Latches
  <2>1. taken' = taken /\ regs' = regs
    BY <1>3 DEF Edge, Clock, IInv, TypeOK
  <2> QED
    BY <1>1, <2>1 DEF Registers!vars, AbstractCall
<1> QED
  BY <1>2, <1>3

(* An edge with an access: the call begins, is answered or ends. *)
LEMMA AccessRefines ==
    ASSUME IInv, Edge, Access
    PROVE  [Registers!Next]_(Registers!vars)
<1>1. regs' = regs /\ address' = address /\ data' = data /\ seen' = seen /\ taken' = taken
  BY AccessSettled
<1>2. op \in {"init", "write", "read"} /\ pc \in 1..10 /\ pc' \in Nat
  BY DEF Access, IInv, TypeOK
<1>3. CASE op = "init"
  <2>1. temp' = temp
    BY <1>3, InitAccessPorts
  <2>2. CASE pc = 10
    <3>1. op' = "idle"
      BY <1>3, <2>2 DEF Access, LastAccess
    <3>2. AbstractCall = Registers!Starting /\ AbstractCall' = Registers!Idle
      BY <1>2, <1>3, <3>1, CallCases, NextCallCases
    <3> QED
      BY <1>1, <2>1, <3>2 DEF Registers!Start, Registers!Next
  <2>3. CASE pc # 10
    <3>1. op' = "init"
      BY <1>3, <2>3 DEF Access, LastAccess
    <3>2. AbstractCall = Registers!Starting /\ AbstractCall' = Registers!Starting
      BY <1>2, <1>3, <3>1, CallCases, NextCallCases
    <3> QED
      BY <1>1, <2>1, <3>2 DEF Registers!vars
  <2> QED
    BY <2>2, <2>3
<1>4. CASE op = "write"
  <2>1. pc \in 1..6
    BY <1>2, <1>4 DEF IInv, PortsInv
  <2>2. temp' = temp
    BY <1>4, WriteAccessPorts
  <2>3. CASE pc = 6
    <3>1. taken
      BY <1>4, <2>3, AccessSettled, PaceAssumption DEF IInv, WriteInv
    <3>2. op' = "idle"
      BY <1>4, <2>3 DEF Access, LastAccess
    <3> QED
      <4>1. /\ AbstractCall = Registers!Writing(address, data, taken)
            /\ AbstractCall' = Registers!Idle
        BY <1>2, <1>4, <3>2, CallCases, NextCallCases
      <4>2. AbstractCall.kind = "write" /\ AbstractCall.taken
        BY <3>1, <4>1 DEF Registers!Writing
      <4> QED
        BY <1>1, <2>2, <4>1, <4>2 DEF Registers!EndWrite, Registers!Next
  <2>4. CASE pc # 6
    <3>1. op' = op
      BY <1>4, <2>4 DEF Access, LastAccess
    <3> QED
      BY <1>1, <1>4, <2>2, <3>1 DEF Registers!vars, AbstractCall
  <2> QED
    BY <2>3, <2>4
<1>5. CASE op = "read"
  <2>1. pc \in 1..6
    BY <1>2, <1>5 DEF IInv, PortsInv
  <2>2. CASE pc < 4
    <3>1. temp' = temp /\ op' = op /\ pc' \in 2..4
      BY <1>5, <2>1, <2>2, ReadAccessPorts
    <3> QED
      BY <1>1, <1>5, <2>1, <2>2, <3>1 DEF Registers!vars, AbstractCall
  <2>3. CASE pc = 4
    <3>1. temp' = readdata /\ op' = op /\ pc' = 5
      BY <1>5, <2>3, ReadAccessPorts
    <3>2. readdata \in seen
      BY <1>5, <2>3, AccessSettled, PaceAssumption DEF IInv, ReadInv
    <3> QED
      <4>1. /\ AbstractCall = Registers!Reading(address, seen)
            /\ AbstractCall' = Registers!Answered
        BY <1>2, <1>5, <2>3, <3>1, CallCases, NextCallCases
      <4>2. AbstractCall.kind = "read" /\ AbstractCall.seen = seen
        BY <4>1 DEF Registers!Reading
      <4> QED
        BY <1>1, <3>1, <3>2, <4>1, <4>2 DEF Registers!Answer, Registers!Next
  <2>4. CASE pc = 5
    <3>1. temp' = temp /\ op' = op /\ pc' = 6
      BY <1>5, <2>4, ReadAccessPorts
    <3> QED
      BY <1>1, <1>5, <2>4, <3>1 DEF Registers!vars, AbstractCall
  <2>5. CASE pc = 6
    <3>1. temp' = temp /\ op' = "idle"
      BY <1>5, <2>5, ReadAccessPorts
    <3> QED
      <4>1. AbstractCall = Registers!Answered /\ AbstractCall' = Registers!Idle
        BY <1>2, <1>5, <2>5, <3>1, CallCases, NextCallCases
      <4> QED
        BY <1>1, <3>1, <4>1 DEF Registers!EndRead, Registers!Next
  <2> QED
    BY <2>1, <2>2, <2>3, <2>4, <2>5
<1> QED
  BY <1>2, <1>3, <1>4, <1>5

LEMMA CallRefines ==
    ASSUME IInv, Call
    PROVE  Registers!Call
<1>1. pc = 1 /\ pc' = 1 /\ op = "idle" /\ regs' = regs /\ temp' = temp
      /\ address' \in Addresses /\ data' \in Data
      /\ taken' = FALSE /\ seen' = {regs[address']}
  BY DEF Call, IInv, PortsInv
<1>4. AbstractCall = Registers!Idle
  BY <1>1, CallCases
<1>2. CASE op' = "write"
  <2>1. AbstractCall' = Registers!Writing(address', data', FALSE)
    BY <1>1, <1>2, NextCallCases
  <2> QED
    BY <1>1, <1>4, <2>1 DEF Registers!Call
<1>3. CASE op' = "read"
  <2>1. AbstractCall' = Registers!Reading(address', {regs[address']})
    <3>1. AbstractCall' = Registers!Reading(address', seen')
      BY <1>1, <1>3, NextCallCases
    <3> QED
      BY <1>1, <3>1
  <2> QED
    BY <1>1, <1>4, <2>1 DEF Registers!Call
<1> QED
  BY <1>2, <1>3 DEF Call

LEMMA ChipChangesRefines ==
    ASSUME IInv, ChipChanges
    PROVE  Registers!ChipChanges
<1>1. PICK a \in Addresses, d \in Data :
           /\ regs' = [regs EXCEPT ![a] = d]
           /\ seen' = IF a = address THEN seen \cup {d} ELSE seen
  BY DEF ChipChanges
<1>2. op' = op /\ pc' = pc /\ address' = address /\ data' = data /\ taken' = taken
      /\ temp' = temp
  BY DEF ChipChanges
<1>3. op \in {"init", "idle", "write", "read"} /\ pc \in 1..10
  BY DEF IInv, TypeOK
<1> SUFFICES AbstractCall' =
                 IF AbstractCall.kind = "read" /\ AbstractCall.address = a
                 THEN [AbstractCall EXCEPT !.seen = AbstractCall.seen \cup {d}]
                 ELSE AbstractCall
  BY <1>1, <1>2 DEF Registers!ChipChanges
<1>4. CASE op = "read" /\ pc <= 4
  <2>1. /\ AbstractCall = Registers!Reading(address, seen)
        /\ AbstractCall' = Registers!Reading(address, seen')
    <3>1. AbstractCall = Registers!Reading(address, seen)
      BY <1>3, <1>4, CallCases
    <3>2. AbstractCall' = Registers!Reading(address', seen')
      BY <1>2, <1>3, <1>4, NextCallCases
    <3> QED
      BY <1>2, <3>1, <3>2
  <2>2. CASE a = address
    <3>1. AbstractCall' = Registers!Reading(address, seen \cup {d})
      BY <1>1, <2>1, <2>2
    <3> QED
      BY <2>1, <2>2, <3>1 DEF Registers!Reading
  <2>3. CASE a # address
    <3>1. AbstractCall' = AbstractCall
      BY <1>1, <2>1, <2>3
    <3>2. AbstractCall.address = address
      BY <2>1 DEF Registers!Reading
    <3> QED
      BY <2>3, <3>1, <3>2
  <2> QED
    BY <2>2, <2>3
<1>5. CASE ~(op = "read" /\ pc <= 4)
  <2>1. AbstractCall' = AbstractCall
    <3>1. CASE op = "read"
      BY <1>2, <1>3, <1>5, <3>1, CallCases, NextCallCases
    <3>2. CASE op # "read"
      BY <1>2, <3>2 DEF AbstractCall
    <3> QED
      BY <3>1, <3>2
  <2>2. AbstractCall.kind # "read"
    <3>1. CASE op = "read"
      BY <1>3, <1>5, <3>1, CallCases DEF Registers!Answered
    <3>2. CASE op = "write"
      BY <1>3, <3>2, CallCases DEF Registers!Writing
    <3>3. CASE op \in {"init", "idle"}
      BY <1>3, <3>3, CallCases DEF Registers!Idle, Registers!Starting
    <3> QED
      BY <1>3, <3>1, <3>2, <3>3
  <2> QED
    BY <2>1, <2>2
<1> QED
  BY <1>4, <1>5

LEMMA ResetRefines ==
    ASSUME Reset
    PROVE  Registers!Reset
BY NextCallCases DEF Reset, Registers!Reset

(* IO_read and IO_write implement the calls of HpiRegisters. *)
THEOREM Implements == Spec => CallsImplemented
<1>1. IInv /\ [Next]_vars => [Registers!Next]_(Registers!vars)
  <2> SUFFICES ASSUME IInv, [Next]_vars
               PROVE  [Registers!Next]_(Registers!vars)
    OBVIOUS
  <2>1. CASE Edge
    BY <2>1, NoAccessRefines, AccessRefines DEF Edge, Registers!Next
  <2>2. CASE Call
    BY <2>2, CallRefines DEF Registers!Next
  <2>3. CASE ChipChanges
    BY <2>3, ChipChangesRefines DEF Registers!Next
  <2>4. CASE Reset
    BY <2>4, ResetRefines DEF Registers!Next
  <2>5. CASE UNCHANGED vars
    BY <2>5 DEF vars, Registers!vars, AbstractCall
  <2> QED
    BY <2>1, <2>2, <2>3, <2>4, <2>5 DEF Next
<1> QED
  BY <1>1, InitRefines, Invariant, PTL DEF Spec, CallsImplemented, Registers!Spec
=============================================================================
