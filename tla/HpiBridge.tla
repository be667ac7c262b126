----------------------------- MODULE HpiBridge -----------------------------
(***************************************************************************)
(* The path from the program to the host chip's four registers: io_handler *)
(* .c, the parallel ports, hpi_io_intf.sv and the bus it shares with the   *)
(* chip.                                                                   *)
(*                                                                         *)
(* A step is an edge of the 50 MHz clock. At most one access of the        *)
(* program to a port ends at an edge, GAP edges or more after the last     *)
(* one. A port shows its new value after the edge; hpi_io_intf registers   *)
(* every signal once more, but drives the bus straight from the port.      *)
(***************************************************************************)
EXTENDS Naturals

CONSTANTS
    Addresses,  \* HPI_DATA, HPI_MAILBOX, HPI_ADDR, HPI_STATUS
    Data,       \* words on the bus
    Floating,   \* an undriven bus, once its last value is gone
    GAP,        \* edges between two accesses of the program, at least
    KEEP        \* edges that an undriven bus holds its last value, at least

ASSUME BusAssumption ==
    /\ 0 \in Addresses /\ 0 \in Data
    /\ Floating \notin Data
ASSUME PaceAssumption == GAP \in Nat /\ GAP >= 3
ASSUME KeepAssumption == KEEP \in Nat /\ KEEP >= 1

VARIABLES
    sw,        \* the output ports: what the program wrote last
    otg,       \* the bridge's registers: the chip's pins and the data buffer
    data_in,   \* from_sw_data_in
    readdata,  \* the input port's register
    kept,      \* the value last driven onto the bus
    age,       \* edges since it was driven, up to KEEP
    regs,      \* the chip's registers
    op,        \* the function the program is in
    pc,        \* its next access
    address, data,  \* the function's arguments
    gap,       \* edges since the last access, up to GAP
    temp,      \* the word read
    taken,     \* history: the chip has taken this call's word
    seen       \* history: what the addressed register held during this call

vars == <<sw, otg, data_in, readdata, kept, age, regs, op, pc, address, data, gap,
          temp, taken, seen>>

Bit == {0, 1}
Ports == {"address", "data_out", "cs", "r", "w", "reset"}
Lines == {"cs", "r", "w", "reset"}

IsPorts(p) ==
    /\ DOMAIN p = Ports
    /\ p["address"] \in Addresses
    /\ p["data_out"] \in Data
    /\ \A line \in Lines : p[line] \in Bit

TypeOK ==
    /\ IsPorts(sw)
    /\ IsPorts(otg)
    /\ data_in \in Data \cup {Floating}
    /\ readdata \in Data \cup {Floating}
    /\ kept \in Data \cup {Floating}
    /\ age \in 0..KEEP
    /\ regs \in [Addresses -> Data]
    /\ op \in {"init", "idle", "write", "read"}
    /\ pc \in 1..10
    /\ address \in Addresses
    /\ data \in Data
    /\ gap \in 0..GAP
    /\ temp \in Data \cup {Floating}
    /\ taken \in BOOLEAN
    /\ seen \subseteq Data

(* The ports' reset value is 0, the bridge's strobes are inactive. *)
PortsReset == [p \in Ports |-> 0]
BridgeReset == [p \in Ports |-> IF p \in {"cs", "r", "w"} THEN 1 ELSE 0]

Init ==
    /\ sw = PortsReset
    /\ otg = BridgeReset
    /\ data_in = 0
    /\ readdata = 0
    /\ kept = 0
    /\ age = KEEP
    /\ regs \in [Addresses -> Data]
    /\ op = "init"
    /\ pc = 1
    /\ address = 0
    /\ data = 0
    /\ gap = 0
    /\ temp = 0
    /\ taken = FALSE
    /\ seen = {}

----------------------------------------------------------------------------
(* The bus. *)

FpgaDrives == sw["w"] = 0

(* The chip drives while it is selected and read. It does not answer until *)
(* IO_init is over.                                                        *)
ChipDrives == op # "init" /\ otg["cs"] = 0 /\ otg["r"] = 0

Bus ==
    IF FpgaDrives THEN otg["data_out"]
    ELSE IF ChipDrives THEN regs[otg["address"]]
    ELSE IF age < KEEP THEN kept
    ELSE Floating

(* The chip takes a word when its write strobe rises while it is selected. *)
Latches == op # "init" /\ otg["cs"] = 0 /\ otg["w"] = 0 /\ sw["w"] = 1

(* hpi_io_intf at an edge, the chip's latch and the input port. *)
Clock ==
    /\ otg' = sw
    /\ data_in' = Bus
    /\ readdata' = data_in
    /\ IF FpgaDrives \/ ChipDrives
       THEN kept' = Bus /\ age' = 0
       ELSE kept' = kept /\ age' = IF age < KEEP THEN age + 1 ELSE age
    /\ regs' = IF Latches THEN [regs EXCEPT ![otg["address"]] = Bus] ELSE regs

----------------------------------------------------------------------------
(* The program. *)

Put(port, value) == sw' = [sw EXCEPT ![port] = value] /\ UNCHANGED temp
Fetch == temp' = readdata /\ UNCHANGED sw

InitAccess ==
    CASE pc = 1 -> Put("reset", 1)
      [] pc = 2 -> Put("cs", 1)
      [] pc = 3 -> Put("r", 1)
      [] pc = 4 -> Put("w", 1)
      [] pc = 5 -> Put("address", 0)
      [] pc = 6 -> Put("data_out", 0)
      [] pc = 7 -> Put("cs", 0)
      [] pc = 8 -> Put("reset", 0)
      [] pc = 9 -> Put("reset", 1)
      [] pc = 10 -> Put("cs", 1)

(* Mutants: the data after the strobe, no chip select, the read strobe left *)
(* active, the word fetched before it is asked for, one access too many.    *)
WriteAccess_DataLast ==
    CASE pc = 1 -> Put("address", address)
      [] pc = 2 -> Put("cs", 0)
      [] pc = 3 -> Put("w", 0)
      [] pc = 4 -> Put("w", 1)
      [] pc = 5 -> Put("data_out", data)
      [] pc = 6 -> Put("cs", 1)
WriteAccess_Unselected ==
    CASE pc = 1 -> Put("address", address)
      [] pc = 2 -> Put("data_out", data)
      [] pc = 3 -> Put("cs", 1)
      [] pc = 4 -> Put("w", 0)
      [] pc = 5 -> Put("w", 1)
      [] pc = 6 -> Put("cs", 1)
ReadAccess_StaysActive ==
    CASE pc = 1 -> Put("address", address)
      [] pc = 2 -> Put("cs", 0)
      [] pc = 3 -> Put("r", 0)
      [] pc = 4 -> Fetch
      [] pc = 5 -> Put("r", 0)
      [] pc = 6 -> Put("cs", 1)
ReadAccess_FetchFirst ==
    CASE pc = 1 -> Put("address", address)
      [] pc = 2 -> Put("cs", 0)
      [] pc = 3 -> Put("r", 1)
      [] pc = 4 -> Fetch
      [] pc = 5 -> Put("r", 0)
      [] pc = 6 -> Put("cs", 1)
LastAccess_Late == pc = IF op = "init" THEN 11 ELSE 6

WriteAccess ==
    CASE pc = 1 -> Put("address", address)
      [] pc = 2 -> Put("data_out", data)
      [] pc = 3 -> Put("cs", 0)
      [] pc = 4 -> Put("w", 0)
      [] pc = 5 -> Put("w", 1)
      [] pc = 6 -> Put("cs", 1)

ReadAccess ==
    CASE pc = 1 -> Put("address", address)
      [] pc = 2 -> Put("cs", 0)
      [] pc = 3 -> Put("r", 0)
      [] pc = 4 -> Fetch
      [] pc = 5 -> Put("r", 1)
      [] pc = 6 -> Put("cs", 1)

LastAccess == pc = IF op = "init" THEN 10 ELSE 6

Access ==
    /\ op # "idle"
    /\ gap = GAP
    /\ gap' = 0
    /\ CASE op = "init" -> InitAccess
         [] op = "write" -> WriteAccess
         [] op = "read" -> ReadAccess
    /\ IF LastAccess
       THEN op' = "idle" /\ pc' = 1
       ELSE op' = op /\ pc' = pc + 1

NoAccess ==
    /\ gap' = IF gap < GAP THEN gap + 1 ELSE gap
    /\ UNCHANGED <<sw, op, pc, temp>>

(* An edge with or without an access. *)
Edge ==
    /\ Clock
    /\ Access \/ NoAccess
    /\ taken' = (taken \/ Latches)
    /\ UNCHANGED <<address, data, seen>>

(* The program calls IO_write or IO_read. *)
Call ==
    /\ op = "idle"
    /\ op' \in {"write", "read"}
    /\ address' \in Addresses
    /\ data' \in Data
    /\ taken' = FALSE
    /\ seen' = {regs[address']}
    /\ UNCHANGED <<sw, otg, data_in, readdata, kept, age, regs, pc, gap, temp>>

(* The chip changes a register of its own accord. *)
ChipChanges ==
    /\ \E a \in Addresses, d \in Data :
           /\ regs' = [regs EXCEPT ![a] = d]
           /\ seen' = IF a = address THEN seen \cup {d} ELSE seen
    /\ UNCHANGED <<sw, otg, data_in, readdata, kept, age, op, pc, address, data, gap,
                   temp, taken>>

(* The reset key: ports, bridge and program start again. *)
Reset ==
    /\ sw' = PortsReset
    /\ otg' = BridgeReset
    /\ data_in' = 0
    /\ readdata' = 0
    /\ op' = "init"
    /\ pc' = 1
    /\ gap' = 0
    /\ UNCHANGED <<kept, age, regs, address, data, temp, taken, seen>>

Next == Edge \/ Call \/ ChipChanges \/ Reset

Spec == Init /\ [][Next]_vars

----------------------------------------------------------------------------
(* Properties. *)

(* The bridge and the chip never drive the bus together, although the     *)
(* bridge drives it a clock before the chip sees the write strobe and the *)
(* chip a clock after the program ended the read (hpi_io_intf.sv 27-38).  *)
NoContention == ~(FpgaDrives /\ ChipDrives)

(* The chip takes a word only from a call of IO_write, and then the word   *)
(* of that call to the register of that call, although the data is taken   *)
(* off the bus a clock before the strobe rises (38). No other edge  *)
(* of the strobe writes into it.                                           *)
TakesOnlyTheCallsWord ==
    Latches =>
        /\ op = "write" /\ pc = 6 /\ ~taken
        /\ otg["address"] = address
        /\ Bus = data

(* A word that was read is one the register held during the call: the pins *)
(* have settled and the two registers on the way back hold it (33-34).     *)
ReadIsCurrent == op = "read" /\ pc > 4 => temp \in seen

(* The call that the program's place stands for. *)
AbstractCall ==
    CASE op = "init" -> [kind |-> "starting"]
      [] op = "idle" -> [kind |-> "idle"]
      [] op = "write" -> [kind |-> "write", address |-> address,
                          data |-> data, taken |-> taken]
      [] op = "read" /\ pc <= 4 -> [kind |-> "read", address |-> address,
                                    seen |-> seen]
      [] op = "read" /\ pc > 4 -> [kind |-> "answered"]

(* IO_read and IO_write implement the calls of HpiRegisters. *)
Registers == INSTANCE HpiRegisters WITH call <- AbstractCall, result <- temp
CallsImplemented == Registers!Spec
=============================================================================
