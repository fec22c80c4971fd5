------------------------------- MODULE Sketch -------------------------------
(***************************************************************************)
(* The two HyperLogLog classes of ytaimbot_ml/utils/hyperloglog.py, which    *)
(* hash differently and find the first 1-bit differently.  A hash is its    *)
(* register and the bits left; of an estimate, which formula gives it.      *)
(***************************************************************************)
EXTENDS Integers, FiniteSets, FiniteSetsExt, Functions, Powers

CONSTANTS
    Items,
    Registers,      \* 2^precision of them
    Bits,           \* width of what is left of a hash
    CounterHash,    \* HyperLogLogCounter (SHA-1): item -> <<register, bits>>
    LogHash,        \* HyperLogLog (SHA-256)
    Alpha,          \* in thousandths
    MaxCount        \* bound: _count

Counters == {"c1", "c2"}
Logs     == {"h1", "h2"}
Sketches == Counters \cup Logs
M        == Cardinality(Registers)

SketchAssumption ==
    /\ IsFiniteSet(Registers) /\ Registers # {} /\ Bits \in Nat /\ Alpha \in 0 .. 1000
    /\ \A h \in {CounterHash, LogHash} :
          h \in [Items -> Registers \X (0 .. Power(2)[Bits] - 1)]

VARIABLES
    registers,      \* of every sketch
    count,          \* _count of a HyperLogLog: calls of add()
    added           \* history: the items that went in

svars == <<registers, count, added>>

Empty == [r \in Registers |-> 0]

HInit ==
    /\ registers = [s \in Sketches |-> Empty]
    /\ count = [s \in Logs |-> 0]
    /\ added = [s \in Sketches |-> {}]
------------------------------------------------------------------------------
\* int.bit_length() and _leading_zeros()
BitLength(w)    == Min({b \in 0 .. Bits : w < Power(2)[b]})
LeadingZeros(w) == Cardinality({b \in 0 .. Bits - 1 : w < Power(2)[b]})

\* rho: the position of the first 1-bit, one past the end of a zero.
CounterRho(w) == IF w = 0 THEN Bits + 1 ELSE Bits - BitLength(w) + 1
LogRho(w)     == LeadingZeros(w) + 1

Raised(regs, r, rho) == [regs EXCEPT ![r] = IF rho > @ THEN rho ELSE @]

AddCounter(s, x) ==
    /\ registers' = [registers EXCEPT ![s] =
                        Raised(@, CounterHash[x][1], CounterRho(CounterHash[x][2]))]
    /\ added' = [added EXCEPT ![s] = @ \cup {x}]
    /\ UNCHANGED count

AddLog(s, x) ==
    /\ count[s] < MaxCount
    /\ registers' = [registers EXCEPT ![s] = Raised(@, LogHash[x][1], LogRho(LogHash[x][2]))]
    /\ count' = [count EXCEPT ![s] = @ + 1]
    /\ added' = [added EXCEPT ![s] = @ \cup {x}]

\* Mutant of Union: the ranks of a register are added.
UnionSum(f, g) == [r \in Registers |-> f[r] + g[r]]

Union(f, g) == [r \in Registers |-> IF f[r] > g[r] THEN f[r] ELSE g[r]]

\* s = s.merge(t), both of one class and precision.
Merge(s, t) ==
    /\ registers' = [registers EXCEPT ![s] = Union(@, registers[t])]
    /\ added' = [added EXCEPT ![s] = @ \cup added[t]]
    /\ IF s \in Logs
       THEN count[s] + count[t] <= MaxCount /\ count' = [count EXCEPT ![s] = @ + count[t]]
       ELSE UNCHANGED count

CounterNext ==
    \/ \E s \in Counters, x \in Items : AddCounter(s, x)
    \/ \E s, t \in Counters : Merge(s, t)

LogNext ==
    \/ \E s \in Logs, x \in Items : AddLog(s, x)
    \/ \E s, t \in Logs : Merge(s, t)
------------------------------------------------------------------------------
\* count() and estimate(): linear counting while the raw estimate is small and a
\* register empty.
Zeros(regs)    == Cardinality({r \in Registers : regs[r] = 0})
Harmonic(regs) == FoldFunction(+, 0, [r \in Registers |-> Power(2)[Bits + 1 - regs[r]]])
SmallRange(regs) == 2 * Alpha * M * Power(2)[Bits + 1] <= 5 * 1000 * Harmonic(regs)
Linear(regs)   == SmallRange(regs) /\ Zeros(regs) > 0

\* The sketch of a set, from the definition: the largest rank of a hash that falls
\* into a register, where rank k means that the hash lies in the k-th half.
Rank(w) == CHOOSE k \in 1 .. Bits + 1 :
              IF w = 0 \/ k = Bits + 1 THEN w = 0 /\ k = Bits + 1
              ELSE w \in Power(2)[Bits - k] .. Power(2)[Bits - k + 1] - 1
SketchOf(hash, S) ==
    [r \in Registers |-> Max({0} \cup {Rank(hash[x][2]) : x \in {y \in S : hash[y][1] = r}})]

\* A sketch is that of the set of its items: neither order, repetition nor any
\* tree of merges, even of overlapping sketches or of one with itself, leaves a
\* trace, and both ways to find the first 1-bit give the same rank
\* (hyperloglog.py:139-289, 376-497).  Up to half as many items as registers the
\* estimate is by linear counting, of no more full registers than items; only the
\* count of calls is that of a bag.
SketchOfSet ==
    /\ \A s \in Counters : registers[s] = SketchOf(CounterHash, added[s])
    /\ \A s \in Logs : registers[s] = SketchOf(LogHash, added[s])
    /\ \A s \in Sketches : 2 * Cardinality(added[s]) <= M =>
          Linear(registers[s]) /\ M - Zeros(registers[s]) <= Cardinality(added[s])
    /\ \A s \in Logs : count[s] >= Cardinality(added[s])
==============================================================================
