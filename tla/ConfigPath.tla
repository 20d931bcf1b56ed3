------------------------------ MODULE ConfigPath ------------------------------
(***************************************************************************)
(* Software configures a design: the application discovers the configs of  *)
(* the hardware with register reads (GlobalConfig, get_config), and then   *)
(* several threads write commands to the config registers and read them.   *)
(* Reads and writes travel on channels of their own.                       *)
(***************************************************************************)
EXTENDS ConfigHardware, SequencesExt

CONSTANTS
  Threads, App,              \* the application discovers the configs
  BYTES_PER_FPGA_TRANSFER, MEMORY_ALIGNMENT_BYTES,
  VAddrs, Sizes,             \* of buffers and rings that the program passes
  MAX_CALLS, READ_CALLS,     \* bound the calls after the discovery; a read counts as several
  MAX_REGISTERS              \* bounds the registers that one behaviour writes

ASSUME PathAssumption == App \in Threads /\ {MAX_CALLS, READ_CALLS, MAX_REGISTERS} \subseteq Nat

\* The application uses a config of each kind of the library, a design has one of a kind,
\* and a config has all its registers in its address space.
ASSUME DesignAssumption ==
  /\ Design \in Seq([id : {MEM_CONFIG_ID, STREAM_CONFIG_ID, REPLAY_BUFFER_CONFIG_ID, GENERIC_CONFIG_ID},
                     n : Nat, size : Nat, in : Seq(Int)])
  /\ \A c, d \in Configs : Design[c].id = Design[d].id => c = d
  /\ \A id \in {MEM_CONFIG_ID, STREAM_CONFIG_ID, REPLAY_BUFFER_CONFIG_ID} : \E c \in Configs : HasId(c, id)
  /\ \A c \in Configs : Len(ReadRegisters(c)) <= Design[c].size

VARIABLES
  results,             \* what the reads of the discovery returned
  outstanding,         \* the reads that have not returned, in the order they were issued
  answered,            \* the reads that returned in the last cycle, with their values
  todo,                \* the register writes a call still has to do
  sent,                \* what software wrote to each write register, decoded
  calls                \* the calls since the discovery

softwareVars == <<results, outstanding, answered, todo, sent, calls>>
vars == <<hardwareVars, softwareVars>>

-----------------------------------------------------------------------------
(* GlobalConfig: the values that the constructor read so far determine     *)
(* what it reads next.                                                     *)

NumConfigs(r) == r[2]
CtorReads(r) == 2 + 2 * NumConfigs(r)

config_bounds(r, i) == IF i = 0 THEN 2 + NumConfigs(r) ELSE r[2 * i + 1]
config_ids(r, i) == r[2 * i + 4]

\* What the constructors of the configs read, in the order the application gets them.
ConfigReads == <<<<MEM_CONFIG_ID, 1>>, <<MEM_CONFIG_ID, 2>>, <<MEM_CONFIG_ID, 3>>,
                 <<STREAM_CONFIG_ID, 1>>, <<REPLAY_BUFFER_CONFIG_ID, 1>>,
                 <<REPLAY_BUFFER_CONFIG_ID, 2>>, <<REPLAY_BUFFER_CONFIG_ID, 3>>>>

config_idx(r, id) == CHOOSE i \in 0 .. NumConfigs(r) - 1 : config_ids(r, i) = id
addr_offset(r, id) == config_bounds(r, config_idx(r, id))
num_regs(r, id) == config_bounds(r, config_idx(r, id) + 1) - addr_offset(r, id)

NextRead(r) ==
  IF Len(r) < 2 THEN Len(r)
  ELSE IF Len(r) < CtorReads(r)
       THEN LET i == (Len(r) - 2) \div 2 IN
            IF Len(r) % 2 = 0 THEN 2 + i ELSE config_bounds(r, i)
  ELSE LET read == ConfigReads[Len(r) - CtorReads(r) + 1] IN addr_offset(r, read[1]) + read[2]

Discovered == Len(results) >= 2 /\ Len(results) = CtorReads(results) + Len(ConfigReads)

\* A member of a config: what its constructor read from this register.
Member(id, reg) ==
  results[CtorReads(results) + CHOOSE k \in DOMAIN ConfigReads : ConfigReads[k] = <<id, reg>>]

Offset(id) == addr_offset(results, id)
NumRegs(id) == num_regs(results, id)

-----------------------------------------------------------------------------
(* Register accesses. A thread waits for its read, and a channel carries   *)
(* one access at a time.                                                   *)

Waits(t) == \E k \in DOMAIN outstanding : outstanding[k].thread = t

Issue(t, addr) ==
  /\ axi_read = <<>>
  /\ axi_read' = <<addr>>
  /\ outstanding' = Append(outstanding, [thread |-> t, addr |-> addr])
  /\ UNCHANGED <<axi_write, writeVars, readVars, fifos, results, answered, todo, sent>>

Discover ==
  /\ ~Discovered /\ ~Waits(App)
  /\ Issue(App, NextRead(results))
  /\ UNCHANGED calls

ConfigIds == {config_ids(results, i) : i \in 0 .. NumConfigs(results) - 1}

\* The first or the last register of a config.
ReadRegister(t) ==
  /\ Discovered /\ ~Waits(t) /\ todo[t] = <<>>
  /\ calls + READ_CALLS <= MAX_CALLS
  /\ \E id \in ConfigIds : \E reg \in {0, NumRegs(id) - 1} : Issue(t, Offset(id) + reg)
  /\ calls' = calls + READ_CALLS

\* Where a write ends up, for the history.
Register(id, reg) == <<CHOOSE c \in Configs : HasId(c, id), reg>>

Write(id, reg, value, what) ==
  [addr |-> Offset(id) + reg, data |-> value, to |-> Register(id, reg), what |-> what]

setCSR(t, writes) ==
  /\ axi_write = <<>>
  /\ axi_write' = <<[addr |-> writes[1].addr, data |-> writes[1].data]>>
  /\ sent' = [sent EXCEPT ![writes[1].to] = Append(@, writes[1].what)]
  /\ todo' = [todo EXCEPT ![t] = Tail(writes)]
  /\ UNCHANGED <<axi_read, writeVars, readVars, fifos, results, outstanding, answered>>

Continue(t) ==
  /\ todo[t] # <<>>
  /\ setCSR(t, todo[t])
  /\ UNCHANGED calls

Call(t, writes) ==
  /\ Discovered /\ ~Waits(t) /\ todo[t] = <<>> /\ calls < MAX_CALLS
  /\ setCSR(t, writes)
  /\ calls' = calls + 1
  /\ Cardinality({r \in DOMAIN sent : sent'[r] # <<>>}) <= MAX_REGISTERS

-----------------------------------------------------------------------------
(* The calls. A guard on what is enqueued is a duty of the caller.         *)

Enqueued(r) == Len(sent[r]) - Len(delivered[r])

MAXIMUM_FPGA_BUFFER_SIZE == BYTES_PER_FPGA_TRANSFER * 2 ^ BUFFER_SIZE_BITS - 1

enqueue_buffer(t, stream, vaddr, capacity) ==
  /\ stream < Member(MEM_CONFIG_ID, 1)
  /\ Enqueued(Register(MEM_CONFIG_ID, stream)) < Member(MEM_CONFIG_ID, 2)
  /\ vaddr < 2 ^ VADDR_BITS
  /\ capacity > 0 /\ capacity < MAXIMUM_FPGA_BUFFER_SIZE
  /\ capacity % BYTES_PER_FPGA_TRANSFER = 0
  /\ LET transfers == capacity \div BYTES_PER_FPGA_TRANSFER IN
     Call(t, <<Write(MEM_CONFIG_ID, stream, vaddr * 2 ^ BUFFER_SIZE_BITS + transfers,
                     [vaddr |-> vaddr, size |-> transfers])>>)

flush_buffers(t) == Call(t, <<Write(MEM_CONFIG_ID, Member(MEM_CONFIG_ID, 1), 0, 0)>>)

\* Nothing tells software how many stream configs fit.
enqueue_stream_config(t, stream, type, select) ==
  /\ stream < Member(STREAM_CONFIG_ID, 1)
  /\ Call(t, <<Write(STREAM_CONFIG_ID, stream, select * 8 + type,
                     [select |-> select, data_type |-> type])>>)

\* Mutation: the size is written first.
RingSizeFirst(buffer, vaddr, size) ==
  <<Write(REPLAY_BUFFER_CONFIG_ID, 3 * buffer + 1, size, [base |-> vaddr, size |-> size]),
    Write(REPLAY_BUFFER_CONFIG_ID, 3 * buffer, vaddr, vaddr)>>

RingWrites(buffer, vaddr, size) ==
  <<Write(REPLAY_BUFFER_CONFIG_ID, 3 * buffer, vaddr, vaddr),
    Write(REPLAY_BUFFER_CONFIG_ID, 3 * buffer + 1, size, [base |-> vaddr, size |-> size])>>

\* Only done while the ReplayBuffer is idle.
configure_ring_buffer(buffer, vaddr, size) ==
  /\ buffer < Member(REPLAY_BUFFER_CONFIG_ID, 1)
  /\ Enqueued(Register(REPLAY_BUFFER_CONFIG_ID, 3 * buffer + 2)) = 0
  /\ vaddr + size <= 2 ^ VADDR_BITS
  /\ vaddr % MEMORY_ALIGNMENT_BYTES = 0
  /\ size >= 2 * Member(REPLAY_BUFFER_CONFIG_ID, 3)
  /\ Call(App, RingWrites(buffer, vaddr, size))

enqueue_num_reads(t, buffer, num_reads) ==
  /\ buffer < Member(REPLAY_BUFFER_CONFIG_ID, 1)
  /\ Enqueued(Register(REPLAY_BUFFER_CONFIG_ID, 3 * buffer + 2)) < Member(REPLAY_BUFFER_CONFIG_ID, 2)
  /\ num_reads > 0
  /\ Call(t, <<Write(REPLAY_BUFFER_CONFIG_ID, 3 * buffer + 2, num_reads, num_reads)>>)

write_register(t, reg, value) ==
  /\ reg < NumRegs(GENERIC_CONFIG_ID)
  /\ Call(t, <<Write(GENERIC_CONFIG_ID, reg, value, value)>>)

\* The k-th command of a register, with a value that tells it from the others.
Calls(t) ==
  LET Count(id, reg) == Len(sent[Register(id, reg)]) IN
  /\ Discovered
  /\ \/ \E v \in VAddrs, n \in Sizes : enqueue_buffer(t, 0, v + Count(MEM_CONFIG_ID, 0), n)
     \/ flush_buffers(t)
     \/ enqueue_stream_config(t, 0, Count(STREAM_CONFIG_ID, 0), 3)
     \/ enqueue_num_reads(t, 0, Count(REPLAY_BUFFER_CONFIG_ID, 2) + 1)
     \/ write_register(t, 0, Count(GENERIC_CONFIG_ID, 0))

Configure ==
  /\ Discovered
  /\ LET k == Len(sent[Register(REPLAY_BUFFER_CONFIG_ID, 1)]) IN
     \E v \in VAddrs, n \in Sizes : configure_ring_buffer(0, v + MEMORY_ALIGNMENT_BYTES * k, n)

-----------------------------------------------------------------------------
\* A response belongs to the oldest read.
Answer ==
  IF Response = {} THEN answered' = {} /\ UNCHANGED <<results, outstanding>>
  ELSE \E data \in Response :
       /\ outstanding' = Tail(outstanding)
       /\ results' = IF Discovered THEN results ELSE Append(results, data)
       /\ answered' = {[addr |-> Head(outstanding).addr, data |-> data]}

Clock == ClockHardware /\ Answer /\ UNCHANGED <<todo, sent, calls>>

Init ==
  /\ HardwareInit
  /\ results = <<>> /\ outstanding = <<>> /\ answered = {}
  /\ todo = [t \in Threads |-> <<>>]
  /\ sent = [r \in Queues \cup Pulses \cup Levels |-> <<>>]
  /\ calls = 0

Next ==
  \/ Clock
  \/ Discover \/ Configure
  \/ \E t \in Threads : ReadRegister(t) \/ Calls(t) \/ Continue(t)

Spec == Init /\ [][Next]_vars

-----------------------------------------------------------------------------
\* How the values of a queue are read by its user (buffer_t, stream_conf_t).
Decode(q, value) ==
  CASE HasId(q[1], MEM_CONFIG_ID) ->
         [vaddr |-> value \div 2 ^ BUFFER_SIZE_BITS, size |-> value % 2 ^ BUFFER_SIZE_BITS]
    [] HasId(q[1], STREAM_CONFIG_ID) -> [select |-> value \div 8, data_type |-> value % 8]
    [] OTHER -> value

\* The writes to a register that have not reached it, oldest first.
UnderWay(r) ==
  LET at == Bound[r[1]] + r[2]
      Here(w) == IF w # <<>> /\ w[1].addr = at THEN <<w[1].data>> ELSE <<>> IN
  (IF WritesTo(r) THEN <<split_write[1].data>> ELSE <<>>) \o Here(pre_write) \o Here(axi_write)

InQueue(q) ==
  (IF q \in Skidded THEN skids[q].head \o skids[q].skid ELSE <<>>)
    \o regs[q] \o Contents(fifos[q])

Commands(q) ==
  LET values == delivered[q] \o InQueue(q) \o UnderWay(q)
  IN  [k \in DOMAIN values |-> Decode(q, values[k])]

Limited == {q \in Queues : ~HasId(q[1], STREAM_CONFIG_ID)}

Part(s, kept) == LET order == SetToSortSeq(kept, <) IN [k \in DOMAIN order |-> s[order[k]]]

\* Commands of several threads reach their component once, in order and with the values
\* that were passed, although no FIFO can push back: none is lost as long as the callers
\* keep to the limit they read from the hardware. A StreamConfig has no limit to read: it
\* may lose commands, but neither swaps nor repeats them.
CommandsArrive ==
  /\ \A q \in Limited : Commands(q) = sent[q]
  /\ \A q \in Queues : \E kept \in SUBSET DOMAIN sent[q] : Commands(q) = Part(sent[q], kept)
  /\ \A r \in Pulses :
       /\ IsPrefix(delivered[r], sent[r])
       /\ Len(delivered[r]) + Len(pulses[r]) + Len(UnderWay(r)) = Len(sent[r])
  /\ \A r \in Levels : UnderWay(r) = <<>> /\ sent[r] # <<>> => levels[r] = Last(sent[r])

\* All registers of a design in one address space.
AllRegisters ==
  GlobalRegisters \o FlattenSeq([c \in Configs |->
    [k \in 1 .. Design[c].size |->
       IF k <= Len(ReadRegisters(c)) THEN ReadRegisters(c)[k] ELSE 0]])

\* Each read returns the register it asked for, to the thread that asked, also when several
\* threads read different configs at once, and no read is lost. So the application finds
\* each config of the design where it is.
ReadsAnswered ==
  /\ \A a \in answered : a.data = AllRegisters[a.addr + 1]
  /\ Discovered => \A c \in Configs :
       /\ Offset(Design[c].id) = Bound[c]
       /\ NumRegs(Design[c].id) = Design[c].size
  /\ Len(outstanding) = Len(axi_read) + Len(pre_read) + fifos[ReadQueue].filling_level

\* Each FIFO is a queue that takes and gives as its user sees it, whatever arrives: an
\* element that is hidden for a cycle is neither lost, nor shown early, nor overtaken.
Queue == INSTANCE FifoContract WITH
  queue   <- [q \in FifoIds |-> Contents(fifos[q])],
  i_valid <- [q \in FifoIds |-> InValid(q)],
  i_data  <- [q \in FifoIds |-> InData(q)],
  o_ready <- [q \in FifoIds |-> OutReady(q)],
  i_ready <- [q \in FifoIds |-> IReady(fifos[q])],
  o_valid <- [q \in FifoIds |-> OValid(fifos[q])],
  o_data  <- [q \in FifoIds |-> fifos[q].o_data]

ImplementsFifo == Queue!Spec
=============================================================================
