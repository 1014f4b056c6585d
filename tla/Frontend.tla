------------------------------ MODULE Frontend ------------------------------
(***************************************************************************)
(* From the options on the command line to the written outputs: arg_parse  *)
(* calling add_format, set_output and set_nostate, and frontend_output     *)
(* (args.c, frontend.c).                                                   *)
(*                                                                         *)
(* Options come in any order.  The outputs list is kept newest first, as   *)
(* list_prepend builds it.  A file is known by the position of the option  *)
(* that named it; dash says that it was named "-".                         *)
(***************************************************************************)
EXTENDS Integers, Sequences, FiniteSets, FiniteSetsExt

CONSTANTS
    Frontends,          \* the formats of the registered frontends
    FormatArgs,         \* what users pass to -f, known formats or not
    DefaultFormat,
    MaxArgs,            \* bound: options on the command line
    NULL

ASSUME FormatAssumption ==
    /\ DefaultFormat \in Frontends
    /\ NULL \notin [at : Nat, dash : BOOLEAN]
ASSUME BoundAssumption == MaxArgs \in Nat

File == [at : 1..MaxArgs, dash : BOOLEAN]
Output == [format : Frontends \union FormatArgs, file : File \union {NULL}, state : BOOLEAN]
Arg == [opt : {"f"}, format : FormatArgs] \union [opt : {"o"}, dash : BOOLEAN] \union [opt : {"C"}]

VARIABLES
    pc,
    args,                   \* ghost: the options processed so far
    outputs,                \* struct list outputs
    usedDefault,            \* used_default_format
    idx,                    \* the output the loops of frontend_output are at
    written                 \* ghost: the outputs completely written

vars == <<pc, args, outputs, usedDefault, idx, written>>

Init ==
    /\ pc = "parse"
    /\ args = <<>>
    /\ outputs = <<>>
    /\ usedDefault = FALSE
    /\ idx = 0
    /\ written = <<>>

-----------------------------------------------------------------------------
(* The outputs list *)

NewOutput(format) == [format |-> format, file |-> NULL, state |-> TRUE]
add_output(outs, format) == <<NewOutput(format)>> \o outs

\* require_format: what the list is after it
Required == IF outputs = <<>> THEN add_output(outputs, DefaultFormat) ELSE outputs

\* Mutant: the last output is overwritten instead of cloned.
ForFileMutant(outs) == outs
\* Mutant: the clone takes over -C with the format.
CloneMutant(outs) ==
    IF outs[1].file # NULL THEN <<[outs[1] EXCEPT !.file = NULL]>> \o outs ELSE outs
ForFile(outs) == IF outs[1].file # NULL THEN add_output(outs, outs[1].format) ELSE outs

-----------------------------------------------------------------------------
(* arg_parse: one option and its callback *)

Option(a) ==
    /\ pc = "parse"
    /\ Len(args) < MaxArgs
    /\ args' = Append(args, a)

\* Mutant: the default output does not keep -f from following.
LateFormatMutant == FALSE
LateFormat == usedDefault

add_format(f) ==
    /\ Option([opt |-> "f", format |-> f])
    /\ ~LateFormat
    /\ outputs' = add_output(outputs, f)
    /\ UNCHANGED <<pc, usedDefault, idx, written>>

set_output(dash) ==
    /\ Option([opt |-> "o", dash |-> dash])
    /\ LET outs == ForFile(Required)
       IN  outputs' = [outs EXCEPT ![1].file = [at |-> Len(args) + 1, dash |-> dash]]
    /\ usedDefault' = (usedDefault \/ outputs = <<>>)
    /\ UNCHANGED <<pc, idx, written>>

set_nostate ==
    /\ Option([opt |-> "C"])
    /\ outputs' = [Required EXCEPT ![1].state = FALSE]
    /\ usedDefault' = (usedDefault \/ outputs = <<>>)
    /\ UNCHANGED <<pc, idx, written>>

\* Whatever makes arg_parse or main stop before the outputs are due: -h, -F,
\* --version, an unknown option, no memory, a failing scan.
Stop ==
    /\ pc = "parse"
    /\ pc' = "exit"
    /\ UNCHANGED <<args, outputs, usedDefault, idx, written>>

\* add_format's EINVAL
FormatRefused(f) ==
    /\ Option([opt |-> "f", format |-> f])
    /\ LateFormat
    /\ pc' = "exit"
    /\ UNCHANGED <<outputs, usedDefault, idx, written>>

-----------------------------------------------------------------------------
(* frontend_output *)

StartOutput ==
    /\ pc = "parse"
    /\ outputs' = Required
    /\ usedDefault' = (usedDefault \/ outputs = <<>>)
    /\ pc' = "resolve"
    /\ idx' = 1
    /\ UNCHANGED <<args, written>>

\* Mutant: only the first output's format is looked at.
ResolvesMutant == idx > 1 \/ outputs[idx].format \in Frontends
Resolves == outputs[idx].format \in Frontends

Resolve ==
    /\ pc = "resolve"
    /\ idx <= Len(outputs)
    /\ IF Resolves THEN idx' = idx + 1 /\ UNCHANGED pc
                   ELSE pc' = "exit" /\ UNCHANGED idx
    /\ UNCHANGED <<args, outputs, usedDefault, written>>

StartWriting ==
    /\ pc = "resolve"
    /\ idx = Len(outputs) + 1
    /\ pc' = "write"
    /\ idx' = 1
    /\ UNCHANGED <<args, outputs, usedDefault, written>>

Stdout(out) == out.file = NULL \/ out.file.dash

Write ==
    /\ pc = "write"
    /\ idx <= Len(outputs)
    /\ written' = Append(written, outputs[idx])
    /\ idx' = idx + 1
    /\ UNCHANGED <<pc, args, outputs, usedDefault>>

\* fopen or fclose fails: the outputs after it are not written
WriteFails ==
    /\ pc = "write"
    /\ idx <= Len(outputs)
    /\ ~Stdout(outputs[idx])
    /\ pc' = "exit"
    /\ UNCHANGED <<args, outputs, usedDefault, idx, written>>

\* frontend_cleanup
Cleanup ==
    /\ pc = "write"
    /\ idx = Len(outputs) + 1
    /\ pc' = "done"
    /\ outputs' = <<>>
    /\ UNCHANGED <<args, usedDefault, idx, written>>

Next ==
    \/ \E f \in FormatArgs : add_format(f) \/ FormatRefused(f)
    \/ \E d \in BOOLEAN : set_output(d)
    \/ set_nostate \/ Stop \/ StartOutput \/ Resolve \/ StartWriting \/ Write \/ WriteFails
    \/ Cleanup

Spec == Init /\ [][Next]_vars

-----------------------------------------------------------------------------
TypeOK ==
    /\ pc \in {"parse", "resolve", "write", "done", "exit"}
    /\ args \in Seq(Arg)
    /\ Len(args) <= MaxArgs
    /\ outputs \in Seq(Output)
    /\ usedDefault \in BOOLEAN
    /\ idx \in Nat
    /\ written \in Seq(Output)

Given(opts) == {k \in 1..Len(args) : args[k].opt \in opts}
Between(i, j) == {k \in 1..Len(args) : i < k /\ k < j}

\* The last format preceding the k-th option
FormatAt(k) ==
    LET fs == Given({"f"}) \intersect Between(0, k)
    IN  IF fs = {} THEN DefaultFormat ELSE args[Max(fs)].format

OfFile(k) == {i \in 1..Len(written) : written[i].file # NULL /\ written[i].file.at = k}

\* "Send output to FILE in the last format preceding this option. Can be
\* specified multiple times" (plotnetcfg.8:59-62): when the program succeeds,
\* every -o has been written exactly once, in that format (frontend.c:80-98).
FilesWritten ==
    pc = "done" =>
        \A k \in Given({"o"}) :
            /\ Cardinality(OfFile(k)) = 1
            /\ \A i \in OfFile(k) : written[i].format = FormatAt(k)

\* A format without a file goes to standard output, and so does the default
\* format when neither is given; nothing else does (plotnetcfg.8:51-54, 62-63,
\* frontend.c:57-78).
FormatsWritten ==
    pc = "done" =>
        LET unfiled(k) == \A o \in Given({"o"}) : o > k =>
                             \E f \in Given({"f"}) : k < f /\ f < o
            open == {k \in Given({"f"}) : unfiled(k)}
        IN  \A f \in Frontends :
                Cardinality({i \in 1..Len(written) :
                                written[i].file = NULL /\ written[i].format = f}) =
                Cardinality({k \in open : args[k].format = f}) +
                    (IF Given({"f", "o"}) = {} /\ f = DefaultFormat THEN 1 ELSE 0)

\* "Every --output starts a new output file, for which output specific options
\* apply" (plotnetcfg.8:63-64): -C after an -o applies to its file, and does not
\* reach the file a following -o starts (frontend.c:88-94, 109-110).
ConfigScoped ==
    pc = "done" =>
        \A k \in Given({"o"}), i \in 1..Len(written) : i \in OfFile(k) =>
            LET own == {c \in Given({"C"}) :
                           c > k /\ Given({"f", "o"}) \intersect Between(k, c) = {}}
                before == Given({"f", "o"}) \intersect Between(0, k)
                second == before # {} /\ args[Max(before)].opt = "o"
            IN  /\ own # {} => ~written[i].state
                /\ (second /\ own = {}) => written[i].state

\* With an unknown format among the options nothing is written at all, not even
\* the outputs that come before it in the list (frontend.c:161-170).
AllOrNothing ==
    (\E k \in Given({"f"}) : args[k].format \notin Frontends) => written = <<>>
=============================================================================
