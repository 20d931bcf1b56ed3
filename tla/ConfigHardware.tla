--------------------------- MODULE ConfigHardware ---------------------------
(***************************************************************************)
(* The configuration registers of a design: GlobalConfig, its two address  *)
(* splitters, and the registers and FIFOs of the MemConfig, StreamConfig,  *)
(* ReplayBufferConfig and GenericConfig behind them. Everything moves on   *)
(* the same clock edge. A slot is a sequence of at most one element.       *)
(***************************************************************************)
EXTENDS MehdiFIFO, ReadyValid, Integers

CONSTANTS
  Design,              \* the configs, in address order, as [id, n, size, in]
  SYSTEM_ID,
  EMPTY_STREAM_CONSUMES_BUFFER, TRANSFER_SIZE,
  VADDR_BITS, BUFFER_SIZE_BITS

MEM_CONFIG_ID == 0
STREAM_CONFIG_ID == 1
REPLAY_BUFFER_CONFIG_ID == 2
GENERIC_CONFIG_ID == -1

NUM_CONFIGS == Len(Design)
Configs == 1 .. NUM_CONFIGS
NUM_GLOBAL_REGS == 2 + NUM_CONFIGS

\* Port 0 holds the global registers, port c the registers of config c.
Ports == 0 .. NUM_CONFIGS

Bound[p \in 0 .. NUM_CONFIGS + 1] ==
  IF p = 0 THEN 0 ELSE IF p = 1 THEN NUM_GLOBAL_REGS ELSE Bound[p - 1] + Design[p - 1].size

GlobalRegisters ==
  <<SYSTEM_ID, NUM_CONFIGS>> \o [c \in Configs |-> Bound[c + 1]]

ReadRegisters(p) ==
  IF p = 0 THEN GlobalRegisters ELSE
  LET d == Design[p] IN
  CASE d.id = MEM_CONFIG_ID           -> <<d.id, d.n, DEPTH, EMPTY_STREAM_CONSUMES_BUFFER>>
    [] d.id = STREAM_CONFIG_ID        -> <<d.id, d.n>>
    [] d.id = REPLAY_BUFFER_CONFIG_ID -> <<d.id, d.n, DEPTH, TRANSFER_SIZE>>
    [] d.id = GENERIC_CONFIG_ID       -> <<d.id>> \o d.in

Units(c) == 0 .. Design[c].n - 1
HasId(c, id) == Design[c].id = id

\* The write registers by their kind: a FIFO, a pulse of one cycle, or a level.
FifoRegisters(c) ==
  IF HasId(c, MEM_CONFIG_ID) \/ HasId(c, STREAM_CONFIG_ID) THEN Units(c)
  ELSE IF HasId(c, REPLAY_BUFFER_CONFIG_ID) THEN {3 * i + 2 : i \in Units(c)} ELSE {}
PulseRegisters(c) ==
  IF HasId(c, MEM_CONFIG_ID) THEN {Design[c].n}
  ELSE IF HasId(c, REPLAY_BUFFER_CONFIG_ID) THEN {3 * i + 1 : i \in Units(c)} ELSE {}
LevelRegisters(c) ==
  IF HasId(c, REPLAY_BUFFER_CONFIG_ID) THEN {3 * i : i \in Units(c)}
  ELSE IF HasId(c, GENERIC_CONFIG_ID) THEN Units(c) ELSE {}

Queues == UNION {{c} \X FifoRegisters(c) : c \in Configs}
Pulses == UNION {{c} \X PulseRegisters(c) : c \in Configs}
Levels == UNION {{c} \X LevelRegisters(c) : c \in Configs}
Skidded == {q \in Queues : HasId(q[1], MEM_CONFIG_ID)}

\* The FIFO of the ReadConfigSplitter. Port 0 has no write registers.
ReadQueue == <<0, 0>>
FifoIds == Queues \cup {ReadQueue}

Undefined == -1

VARIABLES
  axi_write, axi_read,       \* the AXI-Lite channels: a write, an address to read
  pre_write, pre_read,       \* the registers in front of the splitters
  split_write,               \* the register behind the WriteConfigSplitter
  fifos,                     \* of the ConfigWriteFIFOs and the ReadConfigSplitter
  regs,                      \* the register behind each ConfigWriteFIFO
  skids,                     \* the SkidBuffers of the MemConfig
  pulses, levels,            \* ConfigWriteReadyRegisters, ConfigWriteRegisters
  files,                     \* the ConfigReadRegisterFile of each port
  ready,                     \* the queues whose user takes what is offered in this cycle
  delivered                  \* what was taken from each queue and pulse so far

writeVars == <<pre_write, split_write, regs, skids, pulses, levels, ready, delivered>>
readVars == <<pre_read, files>>
hardwareVars == <<axi_write, axi_read, writeVars, readVars, fifos>>

-----------------------------------------------------------------------------
(* Writes. No step can refuse a write.                                     *)

\* The first config also matches the addresses of the global registers, which software
\* does not write.
WritePort(addr) ==
  {c \in Configs : addr < Bound[c + 1] /\ (c = 1 \/ addr >= Bound[c])}

Split(in) ==
  IF in = <<>> \/ WritePort(in[1].addr) = {} THEN <<>> ELSE
  LET c == CHOOSE c \in WritePort(in[1].addr) : TRUE IN
  <<[config |-> c, addr |-> in[1].addr - Bound[c], data |-> in[1].data]>>

WritesTo(r) == split_write # <<>> /\ r = <<split_write[1].config, split_write[1].addr>>

\* A value is cut to the bits of its register. Only a buffer_t has fewer bits than
\* software could write.
Cast(q, value) == IF q \in Skidded THEN value % (2 ^ (VADDR_BITS + BUFFER_SIZE_BITS)) ELSE value

Offered(q) == IF q \in Skidded THEN skids[q].head ELSE regs[q]

RegTaken(q) == IF q \in Skidded THEN SkidReady(skids[q]) ELSE q \in ready

FifoOut(q) == IF OValid(fifos[q]) THEN <<fifos[q].o_data>> ELSE <<>>

Pulse(r) ==
  IF pulses[r] = <<>> THEN <<>>
  ELSE IF HasId(r[1], MEM_CONFIG_ID) THEN pulses[r]
  ELSE <<[base |-> levels[<<r[1], r[2] - 1>>], size |-> pulses[r][1]]>>

ClockWrites ==
  /\ axi_write' = <<>>
  /\ pre_write' = axi_write
  /\ split_write' = Split(pre_write)
  /\ regs' = [q \in Queues |-> ClockedRegister(regs[q], FifoOut(q), RegTaken(q))]
  /\ skids' = [q \in Skidded |-> ClockedSkid(skids[q], regs[q], q \in ready)]
  /\ pulses' = [r \in Pulses |-> IF WritesTo(r) THEN <<split_write[1].data>> ELSE <<>>]
  /\ levels' = [r \in Levels |-> IF WritesTo(r) THEN split_write[1].data ELSE levels[r]]
  /\ delivered' = [r \in Queues \cup Pulses |-> delivered[r] \o
       IF r \in Pulses THEN Pulse(r) ELSE IF r \in ready THEN Offered(r) ELSE <<>>]
  /\ ready' \in SUBSET {q \in Queues : Offered(q)' # <<>>}

-----------------------------------------------------------------------------
(* Reads.                                                                  *)

\* Mutation: the bound itself belongs to the port below it.
BoundBelow(addr) ==
  CHOOSE p \in Ports : (p = 0 \/ addr > Bound[p]) /\ (p = NUM_CONFIGS \/ addr <= Bound[p + 1])

\* The last port also takes the addresses behind it.
ReadPort(addr) ==
  CHOOSE p \in Ports : addr >= Bound[p] /\ (p = NUM_CONFIGS \/ addr < Bound[p + 1])

PortReady(p) == files[p].state = "wait"

Requested(p) == pre_read # <<>> /\ ReadPort(pre_read[1]) = p

\* Without a read, the address in the register is whatever the master drives.
ReadReady(p) == PortReady(p) /\ IReady(fifos[ReadQueue])

MovesRead(moves) ==
  \E p \in Ports : (pre_read = <<>> \/ Requested(p)) /\ moves = ReadReady(p)

Value(p, addr) == IF addr < Len(ReadRegisters(p)) THEN ReadRegisters(p)[addr + 1] ELSE 0

\* The port whose response is returned, if any.
RespondingPort ==
  {p \in Ports : OValid(fifos[ReadQueue]) /\ fifos[ReadQueue].o_data = p /\ files[p].state = "respond"}

Response == {files[p].data : p \in RespondingPort}

\* The response of a file is only there in "respond", and its address only in "lookup".
ClockedFile(p) ==
  LET f == files[p] IN
  CASE f.state = "wait" /\ Requested(p) /\ ReadReady(p) ->
         [state |-> "lookup", addr |-> pre_read[1] - Bound[p], data |-> Undefined]
    [] f.state = "lookup" ->
         [state |-> "respond", addr |-> Undefined, data |-> Value(p, f.addr)]
    [] p \in RespondingPort -> [state |-> "wait", addr |-> Undefined, data |-> Undefined]
    [] OTHER -> f

ClockReads ==
  /\ \E moves \in BOOLEAN :
       /\ MovesRead(moves)
       /\ pre_read' = IF moves THEN axi_read ELSE pre_read
       /\ axi_read' = IF moves THEN <<>> ELSE axi_read
  /\ files' = [p \in Ports |-> ClockedFile(p)]

-----------------------------------------------------------------------------
(* The FIFOs. ConfigWriteFIFO does not look at i_ready.                    *)

InValid(q) ==
  IF q = ReadQueue THEN \E p \in Ports : Requested(p) /\ PortReady(p) ELSE WritesTo(q)
InData(q) ==
  IF ~InValid(q) THEN Undefined
  ELSE IF q = ReadQueue THEN ReadPort(pre_read[1]) ELSE Cast(q, split_write[1].data)
OutReady(q) ==
  IF q = ReadQueue THEN \E p \in Ports : fifos[q].o_data = p /\ files[p].state = "respond"
  ELSE RegisterReady(regs[q], RegTaken(q))

ClockFifos ==
  fifos' = [q \in FifoIds |-> Clocked(fifos[q], InValid(q), InData(q), OutReady(q))]

-----------------------------------------------------------------------------
HardwareInit ==
  /\ axi_write = <<>> /\ axi_read = <<>>
  /\ pre_write = <<>> /\ pre_read = <<>> /\ split_write = <<>>
  /\ fifos = [q \in FifoIds |-> Reset(Undefined)]
  /\ regs = [q \in Queues |-> <<>>]
  /\ skids = [q \in Skidded |-> NoSkid]
  /\ pulses = [r \in Pulses |-> <<>>]
  /\ levels = [r \in Levels |-> Undefined]
  /\ files = [p \in Ports |-> [state |-> "wait", addr |-> Undefined, data |-> Undefined]]
  /\ ready = {}
  /\ delivered = [r \in Queues \cup Pulses |-> <<>>]

ClockHardware == ClockWrites /\ ClockReads /\ ClockFifos
=============================================================================
