---------------------------- MODULE XppPrimitives ----------------------------
(***************************************************************************)
(* The table of primitives of libxpp and its lazy initialisation, by        *)
(* threads that call primitives for the first time at once.  The flag, the  *)
(* table and the SIMD type are plain globals: a step reads or writes one of *)
(* them (memset of the table is one step), and stores are seen in program   *)
(* order.                                                                   *)
(***************************************************************************)
EXTENDS Naturals, Sequences

CONSTANTS Threads,
          WithSimd, WithHalide,  \* the build's WITH_SIMD and WITH_HALIDE
          ForceNone,             \* SIMD_FORCENONE is "1" in the environment
          ProbeWays,             \* the SIMD probes to try: "x64", "x86", "arm"
          MaxOverrides           \* bound on the calls of Xpp_SimdSet and Auto

BuildAssumption ==
    /\ WithSimd \in BOOLEAN /\ WithHalide \in BOOLEAN /\ ForceNone \in BOOLEAN
    /\ MaxOverrides \in Nat /\ ProbeWays \subseteq {"x64", "x86", "arm"}

VARIABLES initialized,  \* g_Initialized
          table,        \* g_Primitives
          simd,         \* simd_type
          probe,        \* which probe the build has
          at,           \* where each thread is
          left,         \* the assignments it has left in XppPrimitives_Init
          overrides     \* how often the SIMD type was set from outside

vars == <<initialized, table, simd, probe, at, left, overrides>>

Entries == {"Compare32", "Compare8", "Copy", "Move", "RGBToYCoCgR", "YCoCgRToRGB",
            "RGBToYCoCgR420", "YCoCgR420ToRGB"}
Simd16 == {"RGBToYCoCgR", "YCoCgRToRGB"}   \* no SIMD kernel has these
Compared == {"Compare32", "Compare8"}      \* the Halide ones are commented out

Unknown == "unknown"  \* ~0
SimdTypes == {Unknown, "none", "sse2", "neon"}

Init ==
    /\ initialized = FALSE
    /\ table = [e \in Entries |-> "null"]
    /\ simd = Unknown /\ probe \in ProbeWays
    /\ at = [t \in Threads |-> "idle"]
    /\ left = [t \in Threads |-> <<>>]
    /\ overrides = 0

Go(t, from, to) == at[t] = from /\ at' = [at EXCEPT ![t] = to]

-----------------------------------------------------------------------------
(* XppPrimitives_Get, by a thread that is about to call a primitive.        *)

\* Mutant: the flag is raised before the table is filled.
FlagFirst(t) ==
    /\ IF initialized THEN Go(t, "idle", "raise") ELSE Go(t, "idle", "probe")
    /\ initialized' = TRUE
    /\ UNCHANGED <<table, simd, probe, left, overrides>>

CheckFlag(t) ==
    /\ IF initialized THEN Go(t, "idle", "raise") ELSE Go(t, "idle", "probe")
    /\ UNCHANGED <<initialized, table, simd, probe, left, overrides>>

RaiseFlag(t) ==
    /\ Go(t, "raise", "call")
    /\ initialized' = TRUE
    /\ UNCHANGED <<table, simd, probe, left, overrides>>

\* The call goes through what the entry holds now; NULL ends the program.
Call(t, e) ==
    /\ Go(t, "call", IF table[e] = "null" THEN "crashed" ELSE "idle")
    /\ UNCHANGED <<initialized, table, simd, probe, left, overrides>>

-----------------------------------------------------------------------------
(* Xpp_SimdInit: nothing if the type is known; else what the CPU has, then  *)
(* what the environment says.                                               *)

\* The ARM probe reads /proc/cpuinfo, again with a larger buffer when a line
\* is longer, until it is 1 MiB; what it has found by then stays.
Found == [x64 |-> {"sse2"}, x86 |-> {"sse2", Unknown}, arm |-> {"neon", Unknown}]

Probe(t) ==
    /\ \/ simd # Unknown /\ Go(t, "probe", "clear") /\ UNCHANGED simd
       \/ simd = Unknown /\ Go(t, "probe", "force") /\ simd' \in Found[probe]
    /\ UNCHANGED <<initialized, table, probe, left, overrides>>

\* Mutant: the environment is asked only when the probe found nothing.
ForceIfUnknown(t) ==
    /\ Go(t, "force", "clear")
    /\ simd' = IF ForceNone /\ simd = Unknown THEN "none" ELSE simd
    /\ UNCHANGED <<initialized, table, probe, left, overrides>>

Force(t) ==
    /\ Go(t, "force", "clear")
    /\ simd' = IF ForceNone THEN "none" ELSE simd
    /\ UNCHANGED <<initialized, table, probe, left, overrides>>

\* Xpp_SimdSet and Xpp_SimdAuto, whose probe is one step here.
Xpp_SimdSet(v) ==
    /\ overrides < MaxOverrides /\ overrides' = overrides + 1
    /\ simd' = v
    /\ UNCHANGED <<initialized, table, probe, at, left>>

Xpp_SimdAuto ==
    /\ overrides < MaxOverrides /\ overrides' = overrides + 1
    /\ simd' \in IF ForceNone THEN {"none"} ELSE Found[probe]
    /\ UNCHANGED <<initialized, table, probe, at, left>>

-----------------------------------------------------------------------------
(* XppPrimitives_Init with XPP_PRIMITIVES_ALL: memset, then the stages.     *)

Seq1(kind, entries) == [i \in 1 .. Len(entries) |-> <<entries[i], kind>>]

GenericStage == Seq1("generic", <<"Compare32", "Compare8", "Copy", "Move", "RGBToYCoCgR",
                                  "YCoCgRToRGB", "RGBToYCoCgR420", "YCoCgR420ToRGB">>)
SimdStage == Seq1("simd", <<"Compare32", "Compare8", "Copy", "Move", "RGBToYCoCgR420", "YCoCgR420ToRGB">>)
HalideStage == Seq1("halide", <<"Copy", "RGBToYCoCgR", "YCoCgRToRGB", "RGBToYCoCgR420", "YCoCgR420ToRGB">>)

\* Mutant: the SIMD stage comes last.
SimdLast == GenericStage \o (IF WithHalide THEN HalideStage ELSE <<>>) \o (IF WithSimd THEN SimdStage ELSE <<>>)

Assignments == GenericStage \o (IF WithSimd THEN SimdStage ELSE <<>>) \o (IF WithHalide THEN HalideStage ELSE <<>>)

Clear(t) ==
    /\ Go(t, "clear", "assign")
    /\ table' = [e \in Entries |-> "null"]
    /\ left' = [left EXCEPT ![t] = Assignments]
    /\ UNCHANGED <<initialized, simd, probe, overrides>>

\* Mutant: the last assignment of the table is missed.
AssignStopsEarly(t) ==
    /\ Go(t, "assign", IF Len(left[t]) = 2 THEN "raise" ELSE "assign")
    /\ table' = [table EXCEPT ![Head(left[t])[1]] = Head(left[t])[2]]
    /\ left' = [left EXCEPT ![t] = Tail(@)]
    /\ UNCHANGED <<initialized, simd, probe, overrides>>

Assign(t) ==
    /\ Go(t, "assign", IF Len(left[t]) = 1 THEN "raise" ELSE "assign")
    /\ table' = [table EXCEPT ![Head(left[t])[1]] = Head(left[t])[2]]
    /\ left' = [left EXCEPT ![t] = Tail(@)]
    /\ UNCHANGED <<initialized, simd, probe, overrides>>

Step(t) ==
    \/ CheckFlag(t) \/ Probe(t) \/ Force(t) \/ Clear(t) \/ Assign(t) \/ RaiseFlag(t)
    \/ \E e \in Entries : Call(t, e)

\* A crash of one thread ends them all.
Next ==
    /\ \A t \in Threads : at[t] # "crashed"
    /\ \/ \E t \in Threads : Step(t)
       \/ \E v \in {"none", "sse2", "neon"} : Xpp_SimdSet(v)
       \/ Xpp_SimdAuto

Spec == Init /\ [][Next]_vars

-----------------------------------------------------------------------------
TypeOK ==
    /\ table \in [Entries -> {"null", "generic", "simd", "halide"}]
    /\ simd \in SimdTypes
    /\ \A t \in Threads : left[t] # <<>> => at[t] = "assign"

Initialising(t) == at[t] \in {"probe", "force", "clear", "assign"}
Busy == \E t \in Threads : Initialising(t)

\* The kernel of each entry: Halide where it has one, then SIMD, then generic.
Wanted(e) ==
    IF WithHalide /\ e \notin Compared \cup {"Move"} THEN "halide"
    ELSE IF WithSimd /\ e \notin Simd16 THEN "simd" ELSE "generic"

\* With the flag up and no thread inside the initialisation, every entry is
\* the best kernel of the build, however many threads filled the table.
TableComplete == initialized /\ ~Busy => \A e \in Entries : table[e] = Wanted(e)

\* A thread that initialises alone never calls through an empty entry: NULL is
\* called only while another thread is clearing and filling the table again.
\* (Two first calls at once can crash; see the README.)
NullCallNeedsTwo ==
    \A t \in Threads : at[t] = "call" /\ at'[t] = "crashed" =>
        \E u \in Threads \ {t} : at[u] = "assign"

\* SIMD_FORCENONE holds once a probe is over, unless the type is overridden.
ForcedNone ==
    ForceNone /\ overrides = 0 /\ (\A t \in Threads : at[t] \notin {"probe", "force"}) => simd \in {Unknown, "none"}
=============================================================================
