--------------------------- MODULE FrontendProofs ---------------------------
(***************************************************************************)
(* What is written for which options, for every command line.              *)
(*                                                                         *)
(* With an unknown format nothing is written: nothing is written before    *)
(* the loop that looks the formats up has ended, and when it has ended all *)
(* formats of the list are known.  What carries this over to the options   *)
(* is that no operation on the list loses a format that was asked for      *)
(* (FormatsListed).                                                        *)
(*                                                                         *)
(* The other three properties speak of a finished run only.  Built says    *)
(* the same of the list at every moment between: which -o each output      *)
(* belongs to, that the first output is the one the next option is about   *)
(* (Headed, Filed), and how many outputs no -o has named (Counted).  Each  *)
(* callback of arg_parse keeps it, and frontend_output writes that list.   *)
(***************************************************************************)
EXTENDS Frontend, SequenceTheorems, FiniteSetTheorems, FunctionTheorems, NaturalsInduction,
        WellFoundedInduction, TLAPS

Listed(outs, f) == \E i \in 1..Len(outs) : outs[i].format = f

\* Every -f has an output of its format as long as outputs are built.
FormatsListed ==
    pc \in {"parse", "resolve"} =>
        /\ written = <<>>
        /\ \A k \in Given({"f"}) : Listed(outputs, args[k].format)

\* The outputs before idx have a frontend.
FormatsResolved ==
    pc = "resolve" => \A i \in 1..Len(outputs) : i < idx => outputs[i].format \in Frontends

AllKnown == \A k \in Given({"f"}) : args[k].format \in Frontends

KnownWhenWriting ==
    /\ pc \in {"write", "done"} => AllKnown
    /\ pc = "exit" => written = <<>> \/ AllKnown

IdxPositive == pc \in {"resolve", "write"} => idx >= 1

IInv == TypeOK /\ IdxPositive /\ FormatsListed /\ FormatsResolved /\ KnownWhenWriting

USE FormatAssumption, BoundAssumption

\* add_output puts one output before the others and keeps them.
LEMMA AddOutput ==
    ASSUME NEW outs \in Seq(Output), NEW f \in Frontends \union FormatArgs
    PROVE  /\ add_output(outs, f) \in Seq(Output)
           /\ Len(add_output(outs, f)) = Len(outs) + 1
           /\ add_output(outs, f)[1] = NewOutput(f)
           /\ \A i \in 1..Len(outs) : add_output(outs, f)[i + 1] = outs[i]
           /\ Listed(add_output(outs, f), f)
           /\ \A g : Listed(outs, g) => Listed(add_output(outs, f), g)
<1>1. NewOutput(f) \in Output
  BY DEF NewOutput, Output
<1>2. <<NewOutput(f)>> \in Seq(Output) /\ Len(<<NewOutput(f)>>) = 1
  BY <1>1
<1>3. /\ add_output(outs, f) \in Seq(Output)
      /\ Len(add_output(outs, f)) = Len(outs) + 1
      /\ add_output(outs, f)[1] = NewOutput(f)
      /\ \A i \in 1..Len(outs) : add_output(outs, f)[i + 1] = outs[i]
  BY <1>2, ConcatProperties DEF add_output
<1>4. NewOutput(f).format = f
  BY DEF NewOutput
<1>5. Listed(add_output(outs, f), f)
  BY <1>3, <1>4, LenProperties DEF Listed
<1>6. ASSUME NEW g, Listed(outs, g) PROVE Listed(add_output(outs, f), g)
  <2>1. PICK i \in 1..Len(outs) : outs[i].format = g
    BY <1>6 DEF Listed
  <2>2. i + 1 \in 1..Len(add_output(outs, f))
    BY <1>3, LenProperties
  <2>. QED
    BY <2>1, <2>2, <1>3 DEF Listed
<1>. QED
  BY <1>3, <1>5, <1>6

\* Changing file or state of the first output loses no format.
LEMMA FirstChanged ==
    ASSUME NEW outs \in Seq(Output), Len(outs) > 0,
           NEW file \in File \union {NULL}, NEW state \in BOOLEAN
    PROVE  /\ [outs EXCEPT ![1].file = file] \in Seq(Output)
           /\ [outs EXCEPT ![1].state = state] \in Seq(Output)
           /\ \A g : Listed(outs, g) => /\ Listed([outs EXCEPT ![1].file = file], g)
                                        /\ Listed([outs EXCEPT ![1].state = state], g)
<1>1. outs[1] \in Output /\ 1 \in 1..Len(outs)
  BY LenProperties, ElementOfSeq
<1>2. [outs[1] EXCEPT !.file = file] \in Output /\ [outs[1] EXCEPT !.state = state] \in Output
  BY <1>1 DEF Output
<1>3. /\ [outs EXCEPT ![1].file = file] \in Seq(Output)
      /\ [outs EXCEPT ![1].state = state] \in Seq(Output)
      /\ Len([outs EXCEPT ![1].file = file]) = Len(outs)
      /\ Len([outs EXCEPT ![1].state = state]) = Len(outs)
      /\ \A i \in 1..Len(outs) : /\ [outs EXCEPT ![1].file = file][i].format = outs[i].format
                                 /\ [outs EXCEPT ![1].state = state][i].format = outs[i].format
  BY <1>1, <1>2, ExceptSeq DEF Output
<1>. QED
  BY <1>3 DEF Listed

\* require_format keeps every format and leaves no empty list.
LEMMA RequiredKeeps ==
    ASSUME TypeOK
    PROVE  /\ Required \in Seq(Output)
           /\ Len(Required) > 0
           /\ \A g : Listed(outputs, g) => Listed(Required, g)
<1>1. outputs \in Seq(Output)
  BY DEF TypeOK
<1>2. CASE outputs = <<>>
  <2>1. Required = add_output(outputs, DefaultFormat)
    BY <1>2 DEF Required
  <2>2. /\ add_output(outputs, DefaultFormat) \in Seq(Output)
        /\ Len(add_output(outputs, DefaultFormat)) = Len(outputs) + 1
        /\ \A g : Listed(outputs, g) => Listed(add_output(outputs, DefaultFormat), g)
    BY <1>1, AddOutput
  <2>. QED
    BY <1>1, <2>1, <2>2, LenProperties
<1>3. CASE outputs # <<>>
  BY <1>1, <1>3, LenProperties, EmptySeq DEF Required
<1>. QED
  BY <1>2, <1>3

\* An option that is no -f adds no demand; -f adds the one it brings.
LEMMA GivenAppend ==
    ASSUME TypeOK, NEW a \in Arg, args' = Append(args, a)
    PROVE  /\ args' \in Seq(Arg)
           /\ \A k \in Given({"f"})' :
                 \/ k \in Given({"f"}) /\ args'[k] = args[k]
                 \/ a.opt = "f" /\ args'[k] = a
<1>1. args \in Seq(Arg)
  BY DEF TypeOK
<1>2. /\ args' \in Seq(Arg)
      /\ Len(args') = Len(args) + 1
      /\ \A k \in 1..Len(args) : args'[k] = args[k]
      /\ args'[Len(args) + 1] = a
  BY <1>1, AppendProperties
<1>. QED
  BY <1>1, <1>2, LenProperties DEF Given

\* Every step keeps the invariant.
LEMMA AllOrNothingStep == IInv /\ [Next]_vars => IInv'
<1>. SUFFICES ASSUME IInv, [Next]_vars PROVE IInv'
  OBVIOUS
<1>. USE DEF IInv
<1>1. ASSUME NEW f \in FormatArgs, add_format(f) PROVE IInv'
  <2>1. [opt |-> "f", format |-> f] \in Arg
    BY DEF Arg
  <2>2. outputs \in Seq(Output) /\ pc = "parse" /\ Len(args) < MaxArgs
        /\ args' = Append(args, [opt |-> "f", format |-> f])
    BY <1>1 DEF TypeOK, add_format, Option
  <2>3. outputs' \in Seq(Output) /\ Listed(outputs', f)
        /\ \A g : Listed(outputs, g) => Listed(outputs', g)
    BY <1>1, <2>2, AddOutput DEF add_format
  <2>4. TypeOK'
    BY <1>1, <2>1, <2>2, <2>3, AppendProperties, LenProperties DEF TypeOK, add_format
  <2>5. FormatsListed'
    <3>. SUFFICES ASSUME NEW k \in Given({"f"})'
                  PROVE  Listed(outputs', args'[k].format)
      BY <1>1, <2>2 DEF FormatsListed, add_format
    <3>1. CASE k \in Given({"f"}) /\ args'[k] = args[k]
      BY <3>1, <2>2, <2>3 DEF FormatsListed
    <3>2. CASE args'[k] = [opt |-> "f", format |-> f]
      <4>1. args'[k].format = f
        BY <3>2
      <4>. QED
        BY <4>1, <2>3
    <3>. QED
      BY <3>1, <3>2, <2>1, <2>2, GivenAppend
  <2>. QED
    BY <1>1, <2>2, <2>4, <2>5 DEF IdxPositive, FormatsResolved, KnownWhenWriting, add_format
<1>2. ASSUME NEW f \in FormatArgs, FormatRefused(f) PROVE IInv'
  <2>1. [opt |-> "f", format |-> f] \in Arg
    BY DEF Arg
  <2>2. TypeOK' /\ written' = <<>>
    BY <1>2, <2>1, AppendProperties, LenProperties DEF TypeOK, FormatRefused, Option, FormatsListed
  <2>. QED
    BY <1>2, <2>2 DEF FormatsListed, IdxPositive, FormatsResolved, KnownWhenWriting, FormatRefused
<1>3. ASSUME NEW d \in BOOLEAN, set_output(d) PROVE IInv'
  <2>1. [opt |-> "o", dash |-> d] \in Arg
    BY DEF Arg
  <2>2. outputs \in Seq(Output) /\ pc = "parse" /\ Len(args) < MaxArgs
        /\ args' = Append(args, [opt |-> "o", dash |-> d])
    BY <1>3 DEF TypeOK, set_output, Option
  <2>. DEFINE outs == ForFile(Required)
              file == [at |-> Len(args) + 1, dash |-> d]
  <2>3. outs \in Seq(Output) /\ Len(outs) > 0 /\ \A g : Listed(outputs, g) => Listed(outs, g)
    <3>1. Required \in Seq(Output) /\ Len(Required) > 0
          /\ \A g : Listed(outputs, g) => Listed(Required, g)
      BY RequiredKeeps
    <3>2. Required[1].format \in Frontends \union FormatArgs
      <4>1. 1 \in 1..Len(Required)
        BY <3>1, LenProperties
      <4>2. Required[1] \in Output
        BY <3>1, <4>1, ElementOfSeq
      <4>. QED
        BY <4>2 DEF Output
    <3>. HIDE DEF Required
    <3>3. CASE outs = Required
      BY <3>1, <3>3
    <3>4. CASE outs = add_output(Required, Required[1].format)
      <4>1. /\ outs \in Seq(Output)
            /\ Len(outs) = Len(Required) + 1
            /\ \A g : Listed(Required, g) => Listed(outs, g)
        BY <3>1, <3>2, <3>4, AddOutput
      <4>. QED
        BY <3>1, <4>1, LenProperties
    <3>. QED
      BY <3>3, <3>4 DEF ForFile
  <2>4. file \in File
    BY <2>2, LenProperties DEF File, TypeOK
  <2>. HIDE DEF outs, file
  <2>5. outputs' = [outs EXCEPT ![1].file = file]
    BY <1>3 DEF set_output, outs, file
  <2>6. outputs' \in Seq(Output) /\ \A g : Listed(outputs, g) => Listed(outputs', g)
    BY <2>3, <2>4, <2>5, FirstChanged
  <2>7. TypeOK'
    BY <1>3, <2>1, <2>2, <2>6, AppendProperties, LenProperties DEF TypeOK, set_output
  <2>8. FormatsListed'
    BY <1>3, <2>1, <2>2, <2>6, GivenAppend DEF FormatsListed, set_output
  <2>. QED
    BY <1>3, <2>2, <2>7, <2>8 DEF IdxPositive, FormatsResolved, KnownWhenWriting, set_output
<1>4. ASSUME set_nostate PROVE IInv'
  <2>1. [opt |-> "C"] \in Arg
    BY DEF Arg
  <2>2. pc = "parse" /\ Len(args) < MaxArgs /\ args' = Append(args, [opt |-> "C"])
    BY <1>4 DEF set_nostate, Option
  <2>3. outputs' \in Seq(Output) /\ \A g : Listed(outputs, g) => Listed(outputs', g)
    BY <1>4, RequiredKeeps, FirstChanged DEF set_nostate
  <2>4. TypeOK'
    BY <1>4, <2>1, <2>2, <2>3, AppendProperties, LenProperties DEF TypeOK, set_nostate
  <2>5. FormatsListed'
    BY <1>4, <2>1, <2>2, <2>3, GivenAppend DEF FormatsListed, set_nostate
  <2>. QED
    BY <1>4, <2>2, <2>4, <2>5 DEF IdxPositive, FormatsResolved, KnownWhenWriting, set_nostate
<1>5. CASE Stop
  BY <1>5 DEF Stop, TypeOK, FormatsListed, IdxPositive, FormatsResolved, KnownWhenWriting
<1>6. CASE StartOutput
  <2>1. Required \in Seq(Output) /\ \A g : Listed(outputs, g) => Listed(Required, g)
    BY RequiredKeeps
  <2>2. TypeOK'
    BY <1>6, <2>1 DEF StartOutput, TypeOK
  <2>3. IdxPositive' /\ FormatsListed' /\ FormatsResolved' /\ KnownWhenWriting'
    BY <1>6, <2>1 DEF StartOutput, FormatsListed, IdxPositive, FormatsResolved, KnownWhenWriting, Given
  <2>. QED
    BY <2>2, <2>3
<1>7. CASE Resolve
  BY <1>7 DEF Resolve, Resolves, TypeOK, FormatsListed, IdxPositive, FormatsResolved, KnownWhenWriting, Given
<1>8. CASE StartWriting
  <2>1. AllKnown
    BY <1>8, LenProperties
    DEF StartWriting, TypeOK, FormatsListed, FormatsResolved, Listed, AllKnown, Given
  <2>. QED
    BY <1>8, <2>1
    DEF StartWriting, TypeOK, FormatsListed, IdxPositive, FormatsResolved, KnownWhenWriting, AllKnown,
      Given
<1>9. CASE Write
  <2>1. outputs[idx] \in Output
    <3>1. outputs \in Seq(Output) /\ idx \in 1..Len(outputs)
      BY <1>9, LenProperties DEF Write, TypeOK, IdxPositive
    <3>. QED
      BY <3>1, ElementOfSeq
  <2>2. TypeOK'
    BY <1>9, <2>1, AppendProperties DEF Write, TypeOK
  <2>. QED
    BY <1>9, <2>2
    DEF Write, TypeOK, FormatsListed, IdxPositive, FormatsResolved, KnownWhenWriting, AllKnown,
      Given
<1>10. CASE WriteFails
  BY <1>10
  DEF WriteFails, TypeOK, FormatsListed, IdxPositive, FormatsResolved, KnownWhenWriting, AllKnown,
      Given
<1>11. CASE Cleanup
  <2>1. TypeOK'
    BY <1>11, EmptySeq DEF Cleanup, TypeOK
  <2>. QED
    BY <1>11, <2>1
    DEF Cleanup, FormatsListed, IdxPositive, FormatsResolved, KnownWhenWriting, AllKnown, Given
<1>12. CASE UNCHANGED vars
  BY <1>12
  DEF vars, TypeOK, FormatsListed, IdxPositive, FormatsResolved, KnownWhenWriting, AllKnown,
      Given
<1>. QED
  BY <1>1, <1>2, <1>3, <1>4, <1>5, <1>6, <1>7, <1>8, <1>9, <1>10, <1>11, <1>12 DEF Next

\* The invariant holds before the arguments are parsed.
LEMMA AllOrNothingInit == Init => IInv
<1>. SUFFICES ASSUME Init PROVE IInv
  OBVIOUS
<1>1. Len(args) = 0 /\ Given({"f"}) = {}
  BY DEF Init, Given
<1>2. TypeOK
  <2>1. <<>> \in Seq(Arg) /\ <<>> \in Seq(Output)
    BY EmptySeq
  <2>2. 0 <= MaxArgs
    OBVIOUS
  <2>. QED
    BY <1>1, <2>1, <2>2 DEF Init, TypeOK
<1>. QED
  BY <1>1, <1>2
  DEF Init, IInv, IdxPositive, FormatsListed, FormatsResolved, KnownWhenWriting

\* An unknown format on the command line keeps frontend_output from writing
\* anything, for every set of frontends and every number of options.
THEOREM NothingWritten == Spec => []AllOrNothing
<1>1. IInv => AllOrNothing
  BY DEF IInv, TypeOK, FormatsListed, KnownWhenWriting, AllKnown, AllOrNothing
<1>. QED
  BY <1>1, AllOrNothingInit, AllOrNothingStep, PTL DEF Spec

-----------------------------------------------------------------------------
(* What the written outputs are: Built relates a list to the options so far  *)

\* The -f that no -o has followed yet, before the next -f
Unfiled(k) == \A o \in Given({"o"}) : o > k => \E f \in Given({"f"}) : k < f /\ f < o
Opens(f) == {k \in Given({"f"}) : Unfiled(k) /\ args[k].format = f}
Unnamed(outs, f) == {i \in 1..Len(outs) : outs[i].file = NULL /\ outs[i].format = f}

\* Every -o is followed by an -f.
FreeHead == \A o \in Given({"o"}) : \E f \in Given({"f"}) : o < f

Own(k) == {c \in Given({"C"}) : c > k /\ Given({"f", "o"}) \intersect Between(k, c) = {}}
Second(k) ==
    LET before == Given({"f", "o"}) \intersect Between(0, k)
    IN  before # {} /\ args[Max(before)].opt = "o"

\* The first output is the one the next option is about.
Headed(outs) ==
    /\ outs = <<>> => args = <<>>
    /\ outs # <<>> => /\ \A m \in Nat : m = Len(args) + 1 => outs[1].format = FormatAt(m)
                      /\ (outs[1].file = NULL) <=> FreeHead

\* No -f or -o follows the k-th option.
LastAt(k) == \A c \in Given({"f", "o"}) : c <= k

\* out is as its -o, the k-th option, and the -C that belong to it say.
FiledAs(out, k) ==
    /\ k \in Given({"o"})
    /\ out.format = FormatAt(k)
    /\ Own(k) # {} => ~out.state
    /\ (Second(k) /\ Own(k) = {}) => out.state

\* An output with a file is the first until the next -f or -o.
Filed(outs) ==
    \A i \in 1..Len(outs), k \in Nat : outs[i].file # NULL /\ outs[i].file.at = k =>
        FiledAs(outs[i], k) /\ ((i = 1) <=> LastAt(k))

FiledOnce(outs) ==
    /\ \A i, j \in 1..Len(outs) :
          outs[i].file # NULL /\ outs[j].file # NULL /\ outs[i].file.at = outs[j].file.at => i = j
    /\ \A k \in Given({"o"}) : \E i \in 1..Len(outs) : outs[i].file # NULL /\ outs[i].file.at = k

Surplus(outs, f) == IF Given({"f", "o"}) = {} /\ outs # <<>> /\ f = DefaultFormat THEN 1 ELSE 0

Counted(outs) ==
    \A f \in Frontends \union FormatArgs :
        Cardinality(Unnamed(outs, f)) = Cardinality(Opens(f)) + Surplus(outs, f)

Built(outs) ==
    /\ Headed(outs)
    /\ Filed(outs)
    /\ FiledOnce(outs)
    /\ Counted(outs)

\* While the options are parsed, looked up and written, the list is built as
\* they say; what is written is the part of it before idx.
Outputs ==
    /\ pc \in {"parse", "resolve", "write"} => \E q : q = outputs /\ Built(q)
    /\ pc = "parse" => (outputs # <<>> /\ Given({"f"}) = {} => usedDefault)
    /\ pc \in {"resolve", "write"} => outputs # <<>>
    /\ pc = "write" => /\ idx <= Len(outputs) + 1
                       /\ Len(written) = idx - 1
                       /\ \A i \in 1..Len(written) : written[i] = outputs[i]
    /\ pc = "done" => written # <<>> /\ \E q : q = written /\ Built(q)

\* Max of a nonempty set of positions is one of them and none is above it.
LEMMA MaxIsLast ==
    ASSUME NEW n \in Nat, NEW S, S \subseteq 1..n, S # {}
    PROVE  Max(S) \in S /\ \A y \in S : y <= Max(S)
<1>. DEFINE T == {n - y : y \in S}
<1>1. T \subseteq Nat /\ T # {}
  <2>1. \A y \in S : n - y \in Nat
    OBVIOUS
  <2>2. PICK y \in S : TRUE
    OBVIOUS
  <2>3. n - y \in T
    BY <2>2
  <2>. QED
    BY <2>1, <2>3
<1>. HIDE DEF T
<1>2. \E x \in T : \A y \in T : ~ (<<y, x>> \in OpToRel(<, Nat))
  BY <1>1, NatLessThanWellFounded, WFMin
<1>3. PICK x \in T : \A y \in T : ~ (<<y, x>> \in OpToRel(<, Nat))
  BY <1>2
<1>4. ASSUME NEW y \in T PROVE ~ (y < x)
  <2>1. <<y, x>> \in Nat \X Nat /\ <<y, x>>[1] = y /\ <<y, x>>[2] = x
    BY <1>1
  <2>. QED
    BY <2>1, <1>3, Zenon DEF OpToRel
<1>5. PICK m \in S : x = n - m
  BY DEF T
<1>6. \A y \in S : m >= y
  <2>. TAKE y \in S
  <2>1. n - y \in T
    BY DEF T
  <2>. QED
    BY <2>1, <1>4, <1>5
<1>7. Max(S) \in S /\ \A y \in S : Max(S) >= y
  BY <1>6 DEF Max
<1>. QED
  BY <1>7

\* What one more option adds to the options of a kind; those before it stay.
LEMMA Appended ==
    ASSUME TypeOK, NEW a \in Arg, args' = Append(args, a), NEW n, n = Len(args) + 1
    PROVE  /\ n \in Nat /\ n > 0 /\ Len(args) \in Nat /\ Len(args') = n
           /\ \A k \in 1..Len(args) : args'[k] = args[k]
           /\ args'[n] = a
           /\ \A opts : Given(opts) \subseteq 1..Len(args)
           /\ \A opts : a.opt \in opts => Given(opts)' = Given(opts) \union {n}
           /\ \A opts : a.opt \notin opts => Given(opts)' = Given(opts)
           /\ \A i \in Nat, j \in 1..n : Between(i, j)' = Between(i, j)
<1>1. args \in Seq(Arg)
  BY DEF TypeOK
<1>2. /\ args' \in Seq(Arg)
      /\ Len(args') = Len(args) + 1
      /\ \A k \in 1..Len(args) : args'[k] = args[k]
      /\ args'[Len(args) + 1] = a
  BY <1>1, AppendProperties
<1>3. n \in Nat /\ n > 0 /\ Len(args) \in Nat /\ Len(args') = n
  BY <1>1, <1>2, LenProperties
<1>4. ASSUME NEW opts
      PROVE  /\ Given(opts) \subseteq 1..Len(args)
             /\ a.opt \in opts => Given(opts)' = Given(opts) \union {n}
             /\ a.opt \notin opts => Given(opts)' = Given(opts)
  BY <1>2, <1>3 DEF Given
<1>5. ASSUME NEW i \in Nat, NEW j \in 1..n PROVE Between(i, j)' = Between(i, j)
  BY <1>2, <1>3 DEF Between
<1>. QED
  BY <1>2, <1>3, <1>4, <1>5

\* What was said before an option is not changed by a later one.
LEMMA BeforeStays ==
    ASSUME TypeOK, NEW a \in Arg, args' = Append(args, a), NEW n, n = Len(args) + 1,
           NEW k \in 1..n
    PROVE  /\ FormatAt(k)' = FormatAt(k)
           /\ Second(k)' = Second(k)
<1>1. /\ n \in Nat /\ n > 0 /\ Len(args) \in Nat /\ Len(args') = n
      /\ \A i \in 1..Len(args) : args'[i] = args[i]
      /\ \A opts : Given(opts) \subseteq 1..Len(args)
      /\ \A opts : a.opt \in opts => Given(opts)' = Given(opts) \union {n}
      /\ \A opts : a.opt \notin opts => Given(opts)' = Given(opts)
      /\ Between(0, k)' = Between(0, k)
  BY Appended
<1>2. n \notin Between(0, k)
  BY <1>1 DEF Between
<1>3. ASSUME NEW opts, NEW S, S = Given(opts) \intersect Between(0, k)
      PROVE  /\ (Given(opts) \intersect Between(0, k))' = S
             /\ S # {} => args'[Max(S)] = args[Max(S)]
  <2>1. Given(opts)' = Given(opts) \/ Given(opts)' = Given(opts) \union {n}
    BY <1>1, Zenon
  <2>2. (Given(opts) \intersect Between(0, k))' = S
    BY <1>1, <1>2, <1>3, <2>1
  <2>3. S \subseteq 1..Len(args)
    BY <1>1, <1>3
  <2>4. S # {} => Max(S) \in 1..Len(args)
    BY <1>1, <2>3, MaxIsLast
  <2>. QED
    BY <1>1, <2>2, <2>4
<1>4. FormatAt(k)' = FormatAt(k)
  BY <1>3 DEF FormatAt
<1>5. Second(k)' = Second(k)
  BY <1>3 DEF Second
<1>. QED
  BY <1>4, <1>5

\* The format for the next option is the one of the last -f.
LEMMA NextFormat ==
    ASSUME TypeOK, NEW a \in Arg, args' = Append(args, a), NEW n, n = Len(args) + 1
    PROVE  FormatAt(n + 1)' = IF a.opt = "f" THEN a.format ELSE FormatAt(n)
<1>1. /\ n \in Nat /\ n > 0 /\ Len(args) \in Nat /\ Len(args') = n
      /\ \A i \in 1..Len(args) : args'[i] = args[i]
      /\ args'[n] = a
      /\ \A opts : Given(opts) \subseteq 1..Len(args)
      /\ \A opts : a.opt \in opts => Given(opts)' = Given(opts) \union {n}
      /\ \A opts : a.opt \notin opts => Given(opts)' = Given(opts)
  BY Appended
<1>2. Given({"f"}) \intersect Between(0, n) = Given({"f"})
  BY <1>1 DEF Between
<1>3. (Given({"f"}) \intersect Between(0, n + 1))' = Given({"f"})'
  <2>1. Given({"f"})' \subseteq 1..n
    BY <1>1 DEF Given
  <2>2. Between(0, n + 1)' = 1..n
    BY <1>1 DEF Between
  <2>. QED
    BY <2>1, <2>2
<1>4. CASE a.opt = "f"
  <2>. DEFINE S == Given({"f"}) \union {n}
  <2>1. Given({"f"})' = S
    BY <1>1, <1>4
  <2>2. Max(S) = n
    <3>1. S \subseteq 1..n /\ n \in S
      BY <1>1
    <3>. HIDE DEF S
    <3>2. Max(S) \in S /\ \A y \in S : y <= Max(S)
      BY <1>1, <3>1, MaxIsLast
    <3>3. Max(S) \in 1..n /\ n <= Max(S)
      BY <3>1, <3>2
    <3>. QED
      BY <1>1, <3>3
  <2>3. FormatAt(n + 1)' = args'[Max(S)].format
    BY <1>3, <2>1 DEF FormatAt
  <2>. QED
    BY <1>1, <1>4, <2>2, <2>3
<1>5. CASE a.opt # "f"
  <2>1. Given({"f"})' = Given({"f"})
    BY <1>1, <1>5
  <2>. DEFINE S == Given({"f"})
  <2>2. S # {} => Max(S) \in 1..Len(args)
    <3>1. S \subseteq 1..Len(args)
      BY <1>1
    <3>. HIDE DEF S
    <3>. QED
      BY <1>1, <3>1, MaxIsLast
  <2>3. FormatAt(n + 1)' = IF S = {} THEN DefaultFormat ELSE args'[Max(S)].format
    BY <1>3, <2>1 DEF FormatAt
  <2>4. FormatAt(n) = IF S = {} THEN DefaultFormat ELSE args[Max(S)].format
    BY <1>2 DEF FormatAt
  <2>. HIDE DEF S
  <2>. QED
    BY <1>1, <1>5, <2>2, <2>3, <2>4
<1>. QED
  BY <1>4, <1>5

\* -C belongs to the -o that no -f or -o follows; other options change no scope.
LEMMA OwnStays ==
    ASSUME TypeOK, NEW a \in Arg, args' = Append(args, a), NEW n, n = Len(args) + 1
    PROVE  /\ Own(n)' = {}
           /\ a.opt # "C" => \A k \in 1..Len(args) : Own(k)' = Own(k)
           /\ a.opt = "C" => \A k \in 1..Len(args) :
                 /\ LastAt(k) => n \in Own(k)'
                 /\ ~LastAt(k) => Own(k)' = Own(k)
<1>1. /\ n \in Nat /\ n > 0 /\ Len(args) \in Nat /\ Len(args') = n
      /\ \A opts : Given(opts) \subseteq 1..Len(args)
      /\ \A opts : a.opt \in opts => Given(opts)' = Given(opts) \union {n}
      /\ \A opts : a.opt \notin opts => Given(opts)' = Given(opts)
      /\ \A i \in Nat, j \in 1..n : Between(i, j)' = Between(i, j)
  BY Appended
<1>2. Own(n)' = {}
  <2>1. Given({"C"})' \subseteq 1..n
    BY <1>1 DEF Given
  <2>. QED
    BY <1>1, <2>1 DEF Own
<1>3. ASSUME NEW k \in 1..Len(args), NEW c \in 1..Len(args)
      PROVE  (Given({"f", "o"}) \intersect Between(k, c))' = Given({"f", "o"}) \intersect Between(k, c)
  <2>1. Between(k, c)' = Between(k, c)
    BY <1>1
  <2>2. n \notin Between(k, c)
    BY <1>1 DEF Between
  <2>3. Given({"f", "o"})' = Given({"f", "o"}) \/ Given({"f", "o"})' = Given({"f", "o"}) \union {n}
    BY <1>1, Zenon
  <2>. QED
    BY <2>1, <2>2, <2>3
<1>4. ASSUME a.opt # "C", NEW k \in 1..Len(args) PROVE Own(k)' = Own(k)
  <2>1. Given({"C"})' = Given({"C"}) /\ Given({"C"}) \subseteq 1..Len(args)
    BY <1>1, <1>4
  <2>. QED
    BY <1>3, <2>1 DEF Own
<1>5. ASSUME a.opt = "C", NEW k \in 1..Len(args)
      PROVE  /\ LastAt(k) => n \in Own(k)'
             /\ ~LastAt(k) => Own(k)' = Own(k)
  <2>1. Given({"C"})' = Given({"C"}) \union {n} /\ Given({"C"}) \subseteq 1..Len(args)
    BY <1>1, <1>5
  <2>2. Given({"f", "o"})' = Given({"f", "o"}) /\ Given({"f", "o"}) \subseteq 1..Len(args)
    BY <1>1, <1>5
  <2>3. Between(k, n)' = {j \in 1..Len(args) : k < j}
    BY <1>1 DEF Between
  <2>4. LastAt(k) <=> (Given({"f", "o"}) \intersect Between(k, n))' = {}
    BY <1>1, <2>2, <2>3 DEF LastAt
  <2>5. n > k
    BY <1>1
  <2>6. CASE LastAt(k)
    BY <2>1, <2>4, <2>5, <2>6 DEF Own
  <2>7. CASE ~LastAt(k)
    BY <1>3, <2>1, <2>4, <2>7 DEF Own
  <2>. QED
    BY <2>6, <2>7
<1>. QED
  BY <1>2, <1>4, <1>5

\* Whether an -f or an -o was last decides if the first output is free.
LEMMA FreeAfter ==
    ASSUME TypeOK, NEW a \in Arg, args' = Append(args, a), NEW n, n = Len(args) + 1
    PROVE  /\ a.opt = "f" => FreeHead'
           /\ a.opt = "o" => ~FreeHead'
           /\ a.opt = "C" => (FreeHead' <=> FreeHead)
           /\ Second(n) => ~FreeHead
<1>1. /\ n \in Nat /\ n > 0 /\ Len(args) \in Nat /\ Len(args') = n
      /\ \A opts : Given(opts) \subseteq 1..Len(args)
      /\ \A opts : a.opt \in opts => Given(opts)' = Given(opts) \union {n}
      /\ \A opts : a.opt \notin opts => Given(opts)' = Given(opts)
  BY Appended
<1>2. ASSUME a.opt = "f" PROVE FreeHead'
  <2>1. Given({"f"})' = Given({"f"}) \union {n} /\ Given({"o"})' = Given({"o"})
    BY <1>1, <1>2
  <2>2. \A o \in Given({"o"}) : o < n
    BY <1>1
  <2>. QED
    BY <2>1, <2>2 DEF FreeHead
<1>3. ASSUME a.opt = "o" PROVE ~FreeHead'
  <2>1. Given({"o"})' = Given({"o"}) \union {n} /\ Given({"f"})' = Given({"f"})
    BY <1>1, <1>3
  <2>2. \A f \in Given({"f"}) : ~ (n < f)
    BY <1>1
  <2>. QED
    BY <2>1, <2>2 DEF FreeHead
<1>4. ASSUME a.opt = "C" PROVE FreeHead' <=> FreeHead
  <2>1. Given({"o"})' = Given({"o"}) /\ Given({"f"})' = Given({"f"})
    BY <1>1, <1>4
  <2>. QED
    BY <2>1 DEF FreeHead
<1>5. ASSUME Second(n) PROVE ~FreeHead
  <2>. DEFINE B == Given({"f", "o"}) \intersect Between(0, n)
  <2>1. B # {} /\ args[Max(B)].opt = "o"
    BY <1>5 DEF Second
  <2>2. B \subseteq 1..Len(args)
    BY <1>1
  <2>3. \A f \in Given({"f"}) : f \in B
    BY <1>1 DEF Given, Between
  <2>4. \A i \in 1..Len(args) : args[i].opt = "o" => i \in Given({"o"})
    BY DEF Given
  <2>. HIDE DEF B
  <2>5. Max(B) \in B /\ \A y \in B : y <= Max(B)
    BY <1>1, <2>1, <2>2, MaxIsLast
  <2>6. Max(B) \in Given({"o"})
    BY <2>1, <2>2, <2>4, <2>5
  <2>7. \A f \in Given({"f"}) : ~ (Max(B) < f)
    <3>. TAKE f \in Given({"f"})
    <3>1. f \in 1..Len(args) /\ Max(B) \in 1..Len(args) /\ f <= Max(B)
      BY <2>2, <2>3, <2>5
    <3>. QED
      BY <1>1, <3>1
  <2>. QED
    BY <2>6, <2>7 DEF FreeHead
<1>. QED
  BY <1>2, <1>3, <1>4, <1>5

\* An -f opens itself, -C changes nothing, and an -o closes the last -f if it
\* is still open.
LEMMA OpensAfter ==
    ASSUME TypeOK, NEW a \in Arg, args' = Append(args, a), NEW n, n = Len(args) + 1, NEW h
    PROVE  /\ a.opt = "f" /\ a.format = h => Opens(h)' = Opens(h) \union {n}
           /\ a.opt = "f" /\ a.format # h => Opens(h)' = Opens(h)
           /\ a.opt = "C" => Opens(h)' = Opens(h)
           /\ a.opt = "o" => Opens(h)' = {k \in Opens(h) : \E f \in Given({"f"}) : k < f}
<1>1. /\ n \in Nat /\ n > 0 /\ Len(args) \in Nat /\ Len(args') = n
      /\ \A i \in 1..Len(args) : args'[i] = args[i]
      /\ args'[n] = a
      /\ \A opts : Given(opts) \subseteq 1..Len(args)
      /\ \A opts : a.opt \in opts => Given(opts)' = Given(opts) \union {n}
      /\ \A opts : a.opt \notin opts => Given(opts)' = Given(opts)
  BY Appended
<1>2. ASSUME a.opt = "f"
      PROVE  /\ a.format = h => Opens(h)' = Opens(h) \union {n}
             /\ a.format # h => Opens(h)' = Opens(h)
  <2>1. Given({"f"})' = Given({"f"}) \union {n} /\ Given({"o"})' = Given({"o"})
    BY <1>1, <1>2
  <2>2. \A o \in Given({"o"}) : o < n /\ o \in Nat
    BY <1>1
  <2>3. ASSUME NEW k \in Given({"f"}) PROVE Unfiled(k)' <=> Unfiled(k)
    BY <1>1, <2>1, <2>2 DEF Unfiled
  <2>4. Unfiled(n)'
    BY <1>1, <2>1, <2>2 DEF Unfiled
  <2>5. \A k \in Given({"f"}) : args'[k] = args[k]
    BY <1>1
  <2>. QED
    BY <1>1, <2>1, <2>3, <2>4, <2>5 DEF Opens
<1>3. ASSUME a.opt = "C" PROVE Opens(h)' = Opens(h)
  <2>1. Given({"f"})' = Given({"f"}) /\ Given({"o"})' = Given({"o"})
    BY <1>1, <1>3
  <2>2. \A k \in Given({"f"}) : args'[k] = args[k]
    BY <1>1
  <2>. QED
    BY <2>1, <2>2 DEF Opens, Unfiled
<1>4. ASSUME a.opt = "o" PROVE Opens(h)' = {k \in Opens(h) : \E f \in Given({"f"}) : k < f}
  <2>1. Given({"f"})' = Given({"f"}) /\ Given({"o"})' = Given({"o"}) \union {n}
    BY <1>1, <1>4
  <2>2. \A k \in Given({"f"}) : args'[k] = args[k] /\ k < n
    BY <1>1
  <2>3. ASSUME NEW k \in Given({"f"})
        PROVE  Unfiled(k)' <=> Unfiled(k) /\ \E f \in Given({"f"}) : k < f
    BY <2>1, <2>2 DEF Unfiled
  <2>. QED
    BY <2>1, <2>2, <2>3 DEF Opens
<1>. QED
  BY <1>2, <1>3, <1>4

\* The last -f is open just when the first output is free.
LEMMA LastOpen ==
    ASSUME TypeOK, NEW h
    PROVE  /\ ~FreeHead => {k \in Opens(h) : \E f \in Given({"f"}) : k < f} = Opens(h)
           /\ FreeHead /\ Given({"f"}) # {} /\ h = FormatAt(Len(args) + 1) =>
                 \E l \in Opens(h) : {k \in Opens(h) : \E f \in Given({"f"}) : k < f} = Opens(h) \ {l}
           /\ FreeHead /\ Given({"f"}) # {} /\ h # FormatAt(Len(args) + 1) =>
                 {k \in Opens(h) : \E f \in Given({"f"}) : k < f} = Opens(h)
<1>. DEFINE F == Given({"f"})
            O == Given({"o"})
            Rest == {k \in Opens(h) : \E f \in F : k < f}
            l == Max(F)
<1>1. Len(args) \in Nat
  BY LenProperties DEF TypeOK
<1>2. F \subseteq 1..Len(args) /\ O \subseteq 1..Len(args) /\ \A k \in F : k \notin O
  BY DEF Given
<1>3. Opens(h) = {k \in F : (\A o \in O : o > k => \E f \in F : k < f /\ f < o) /\ args[k].format = h}
  BY DEF Opens, Unfiled
<1>4. FreeHead <=> \A o \in O : \E f \in F : o < f
  BY DEF FreeHead
<1>5. F \intersect Between(0, Len(args) + 1) = F
  BY <1>1, <1>2 DEF Between
<1>6. F # {} => FormatAt(Len(args) + 1) = args[l].format
  BY <1>5 DEF FormatAt
<1>. HIDE DEF F, O, l
<1>7. ASSUME ~FreeHead PROVE Rest = Opens(h)
  <2>1. PICK o \in O : \A f \in F : ~ (o < f)
    BY <1>4, <1>7
  <2>2. ASSUME NEW k \in Opens(h) PROVE \E f \in F : k < f
    <3>1. k \in F /\ (o > k => \E f \in F : k < f /\ f < o)
      BY <1>3, <2>2
    <3>2. k # o /\ ~ (o < k)
      BY <1>2, <2>1, <3>1
    <3>. QED
      BY <1>1, <1>2, <3>1, <3>2
  <2>. QED
    BY <2>2
<1>8. F # {} => l \in F /\ \A f \in F : f <= l
  BY <1>1, <1>2, MaxIsLast DEF l
<1>9. ASSUME F # {} PROVE Rest = Opens(h) \ {l}
  <2>1. ASSUME NEW k \in F PROVE (\E f \in F : k < f) <=> k # l
    <3>1. l \in 1..Len(args) /\ k \in 1..Len(args) /\ l \in F
      BY <1>2, <1>8, <1>9
    <3>2. \A f \in F : f \in 1..Len(args) /\ f <= l
      BY <1>2, <1>8, <1>9
    <3>. QED
      BY <1>1, <3>1, <3>2
  <2>2. Opens(h) \subseteq F
    BY <1>3
  <2>. QED
    BY <2>1, <2>2
<1>10. ASSUME FreeHead, F # {} PROVE l \in Opens(h) <=> args[l].format = h
  <2>1. ASSUME NEW o \in O, o > l PROVE FALSE
    <3>1. PICK f \in F : o < f
      BY <1>4, <1>10
    <3>2. l \in 1..Len(args) /\ o \in 1..Len(args) /\ f \in 1..Len(args) /\ f <= l
      BY <1>2, <1>8, <1>10
    <3>. QED
      BY <1>1, <2>1, <3>1, <3>2
  <2>. QED
    BY <1>3, <1>8, <1>10, <2>1
<1>11. ASSUME FreeHead, F # {}, h = FormatAt(Len(args) + 1)
       PROVE  \E m \in Opens(h) : Rest = Opens(h) \ {m}
  BY <1>6, <1>9, <1>10, <1>11
<1>12. ASSUME FreeHead, F # {}, h # FormatAt(Len(args) + 1) PROVE Rest = Opens(h)
  BY <1>6, <1>9, <1>10, <1>12
<1>. QED
  BY <1>7, <1>11, <1>12 DEF F

\* The outputs without a file can be counted.
LEMMA UnnamedFinite ==
    ASSUME NEW outs \in Seq(Output), NEW h
    PROVE  IsFiniteSet(Unnamed(outs, h)) /\ Cardinality(Unnamed(outs, h)) \in Nat
<1>1. Len(outs) \in Nat
  BY LenProperties
<1>2. IsFiniteSet(1..Len(outs))
  BY <1>1, FS_Interval
<1>3. Unnamed(outs, h) \in SUBSET (1..Len(outs))
  BY DEF Unnamed
<1>4. IsFiniteSet(Unnamed(outs, h))
  BY <1>2, <1>3, FS_Subset
<1>. QED
  BY <1>4, FS_CardinalityType

\* One output, of format g, before the others: the others are as many, and it
\* counts when g is the format counted.
OneMore(p, outs, g, h) ==
    /\ Cardinality(Unnamed(p, h) \ {1}) = Cardinality(Unnamed(outs, h))
    /\ g = h => Cardinality(Unnamed(p, h)) = Cardinality(Unnamed(outs, h)) + 1
    /\ g # h => Cardinality(Unnamed(p, h)) = Cardinality(Unnamed(outs, h))

\* A new output is one more without a file.
LEMMA UnnamedAdded ==
    ASSUME NEW outs \in Seq(Output), NEW g \in Frontends \union FormatArgs, NEW p,
           p = add_output(outs, g), NEW h
    PROVE  OneMore(p, outs, g, h)
<1>1. /\ p \in Seq(Output)
      /\ Len(p) = Len(outs) + 1
      /\ p[1] = NewOutput(g)
      /\ \A i \in 1..Len(outs) : p[i + 1] = outs[i]
  BY AddOutput
<1>2. Len(outs) \in Nat
  BY LenProperties
<1>. DEFINE S == Unnamed(outs, h)
            T == Unnamed(p, h) \ {1}
            F == [i \in S |-> i + 1]
<1>3. S \subseteq 1..Len(outs)
  BY DEF Unnamed
<1>4. ASSUME NEW i \in S PROVE i + 1 \in T
  <2>1. i \in 1..Len(outs) /\ outs[i].file = NULL /\ outs[i].format = h
    BY <1>4 DEF Unnamed
  <2>2. i + 1 \in 1..Len(p) /\ i + 1 # 1 /\ p[i + 1] = outs[i]
    BY <1>1, <1>2, <2>1
  <2>. QED
    BY <2>1, <2>2 DEF Unnamed
<1>5. ASSUME NEW j \in T PROVE j - 1 \in S /\ F[j - 1] = j
  <2>1. j \in 1..Len(p) /\ j # 1 /\ p[j].file = NULL /\ p[j].format = h
    BY <1>5 DEF Unnamed
  <2>2. j - 1 \in 1..Len(outs) /\ (j - 1) + 1 = j
    BY <1>1, <1>2, <2>1
  <2>3. p[j] = outs[j - 1]
    BY <1>1, <2>2
  <2>4. j - 1 \in S
    BY <2>1, <2>2, <2>3 DEF Unnamed
  <2>. QED
    BY <2>2, <2>4
<1>6. F \in [S -> T]
  BY <1>4
<1>7. \A i, j \in S : F[i] = F[j] => i = j
  BY <1>3
<1>8. \A j \in T : \E i \in S : F[i] = j
  BY <1>5
<1>. HIDE DEF S, T, F
<1>9. F \in Bijection(S, T)
  BY <1>6, <1>7, <1>8, Fun_IsBij
<1>10. ExistsBijection(S, T)
  BY <1>9 DEF ExistsBijection
<1>11. IsFiniteSet(S) /\ Cardinality(S) \in Nat
  BY UnnamedFinite DEF S
<1>12. IsFiniteSet(T) /\ Cardinality(T) = Cardinality(S)
  BY <1>10, <1>11, FS_Bijection
<1>13. 1 \in Unnamed(p, h) <=> g = h
  <2>1. p[1].file = NULL /\ p[1].format = g
    BY <1>1 DEF NewOutput
  <2>. QED
    BY <1>1, <1>2, <2>1 DEF Unnamed
<1>14. CASE g = h
  <2>1. Unnamed(p, h) = T \union {1} /\ 1 \notin T
    BY <1>13, <1>14 DEF T
  <2>2. Cardinality(T \union {1}) = Cardinality(T) + 1
    BY <1>12, <2>1, FS_AddElement
  <2>. QED
    BY <1>12, <1>14, <2>1, <2>2 DEF S, T, OneMore
<1>15. CASE g # h
  <2>1. Unnamed(p, h) = T
    BY <1>13, <1>15 DEF T
  <2>2. Cardinality(Unnamed(p, h)) = Cardinality(S)
    BY <1>12, <2>1
  <2>. QED
    BY <1>12, <1>15, <2>2 DEF S, T, OneMore
<1>. QED
  BY <1>14, <1>15

\* What changes when the first output gets its file, or loses its state.
Named(p, outs, file) ==
    /\ p \in Seq(Output)
    /\ Len(p) = Len(outs)
    /\ file # NULL
    /\ p[1].file = file /\ p[1].format = outs[1].format /\ p[1].state = outs[1].state
    /\ \A i \in 1..Len(outs) : i # 1 => p[i] = outs[i]
    /\ \A h : Unnamed(p, h) = Unnamed(outs, h) \ {1}

\* -o names the file of the newest output.
LEMMA FirstFiled ==
    ASSUME NEW outs \in Seq(Output), Len(outs) > 0, NEW file \in File, NEW p,
           p = [outs EXCEPT ![1].file = file]
    PROVE  Named(p, outs, file)
<1>1. outs[1] \in Output /\ 1 \in 1..Len(outs)
  BY LenProperties, ElementOfSeq
<1>2. file # NULL /\ file \in File \union {NULL}
  BY DEF File
<1>3. [outs[1] EXCEPT !.file = file] \in Output
  BY <1>1, <1>2 DEF Output
<1>4. /\ p \in Seq(Output)
      /\ Len(p) = Len(outs)
      /\ p[1] = [outs[1] EXCEPT !.file = file]
      /\ \A i \in 1..Len(outs) : i # 1 => p[i] = outs[i]
  BY <1>1, <1>3, ExceptSeq
<1>5. p[1].file = file /\ p[1].format = outs[1].format /\ p[1].state = outs[1].state
  BY <1>1, <1>4 DEF Output
<1>6. \A h : Unnamed(p, h) = Unnamed(outs, h) \ {1}
  BY <1>2, <1>4, <1>5 DEF Unnamed
<1>. QED
  BY <1>2, <1>4, <1>5, <1>6 DEF Named

Cleared(p, outs) ==
    /\ p \in Seq(Output)
    /\ Len(p) = Len(outs)
    /\ p[1].file = outs[1].file /\ p[1].format = outs[1].format /\ p[1].state = FALSE
    /\ \A i \in 1..Len(outs) : i # 1 => p[i] = outs[i]
    /\ \A h : Unnamed(p, h) = Unnamed(outs, h)

\* -C clears the state of the newest output.
LEMMA FirstCleared ==
    ASSUME NEW outs \in Seq(Output), Len(outs) > 0, NEW p,
           p = [outs EXCEPT ![1].state = FALSE]
    PROVE  Cleared(p, outs)
<1>1. outs[1] \in Output /\ 1 \in 1..Len(outs)
  BY LenProperties, ElementOfSeq
<1>2. [outs[1] EXCEPT !.state = FALSE] \in Output
  BY <1>1 DEF Output
<1>3. /\ p \in Seq(Output)
      /\ Len(p) = Len(outs)
      /\ p[1] = [outs[1] EXCEPT !.state = FALSE]
      /\ \A i \in 1..Len(outs) : i # 1 => p[i] = outs[i]
  <2>. DEFINE e == [outs[1] EXCEPT !.state = FALSE]
  <2>1. p = [outs EXCEPT ![1] = e] /\ e \in Output
    BY <1>2
  <2>. HIDE DEF e
  <2>2. /\ [outs EXCEPT ![1] = e] \in Seq(Output)
        /\ Len([outs EXCEPT ![1] = e]) = Len(outs)
        /\ \A j \in 1..Len(outs) : [outs EXCEPT ![1] = e][j] = IF j = 1 THEN e ELSE outs[j]
    <3>. SUFFICES ASSUME NEW d \in Output
                  PROVE  /\ [outs EXCEPT ![1] = d] \in Seq(Output)
                         /\ Len([outs EXCEPT ![1] = d]) = Len(outs)
                         /\ \A j \in 1..Len(outs) :
                               [outs EXCEPT ![1] = d][j] = IF j = 1 THEN d ELSE outs[j]
      BY <2>1
    <3>. QED
      BY <1>1, ExceptSeq
  <2>3. /\ p \in Seq(Output)
        /\ Len(p) = Len(outs)
        /\ \A j \in 1..Len(outs) : p[j] = IF j = 1 THEN e ELSE outs[j]
    BY <2>1, <2>2, Zenon
  <2>. QED
    BY <1>1, <2>3 DEF e
<1>4. p[1].file = outs[1].file /\ p[1].format = outs[1].format /\ p[1].state = FALSE
  BY <1>1, <1>3 DEF Output
<1>5. \A h : Unnamed(p, h) = Unnamed(outs, h)
  BY <1>1, <1>3, <1>4 DEF Unnamed
<1>. QED
  BY <1>3, <1>4, <1>5 DEF Cleared

\* The -f arguments without a -o can be counted.
LEMMA OpensFinite ==
    ASSUME TypeOK, NEW h
    PROVE  IsFiniteSet(Opens(h)) /\ Cardinality(Opens(h)) \in Nat
<1>1. Len(args) \in Nat
  BY LenProperties DEF TypeOK
<1>2. IsFiniteSet(1..Len(args))
  BY <1>1, FS_Interval
<1>3. Opens(h) \in SUBSET (1..Len(args))
  BY DEF Opens, Given
<1>4. IsFiniteSet(Opens(h))
  BY <1>2, <1>3, FS_Subset
<1>. QED
  BY <1>4, FS_CardinalityType

\* A filed output stays as its options say when another option follows; only -C
\* changes what it should be, and only while no -f or -o has followed.
LEMMA FiledStays ==
    ASSUME TypeOK, NEW a \in Arg, args' = Append(args, a), NEW n, n = Len(args) + 1,
           NEW out, NEW k, FiledAs(out, k)
    PROVE  /\ k \in 1..Len(args)
           /\ a.opt # "C" => FiledAs(out, k)' /\ ~LastAt(k)'
           /\ a.opt = "C" => (LastAt(k)' <=> LastAt(k))
           /\ a.opt = "C" /\ ~LastAt(k) => FiledAs(out, k)'
           /\ a.opt = "C" /\ LastAt(k) =>
                 \A off : off.format = out.format /\ ~off.state => FiledAs(off, k)'
<1>1. /\ n \in Nat /\ n > 0 /\ Len(args) \in Nat /\ Len(args') = n
      /\ \A opts : Given(opts) \subseteq 1..Len(args)
      /\ \A opts : a.opt \in opts => Given(opts)' = Given(opts) \union {n}
      /\ \A opts : a.opt \notin opts => Given(opts)' = Given(opts)
  BY Appended
<1>2. k \in Given({"o"}) /\ k \in 1..Len(args) /\ k \in 1..n /\ k \in Given({"o"})'
  <2>1. k \in Given({"o"})
    BY DEF FiledAs
  <2>2. Given({"o"})' = Given({"o"}) \/ Given({"o"})' = Given({"o"}) \union {n}
    BY <1>1, Zenon
  <2>. QED
    BY <1>1, <2>1, <2>2
<1>3. FormatAt(k)' = FormatAt(k) /\ Second(k)' = Second(k)
  BY <1>2, BeforeStays
<1>4. ASSUME a.opt # "C" PROVE FiledAs(out, k)' /\ ~LastAt(k)'
  <2>1. a.opt \in {"f", "o"}
    BY <1>4 DEF Arg
  <2>2. Own(k)' = Own(k)
    BY <1>2, <1>4, OwnStays
  <2>3. FiledAs(out, k)'
    BY <1>2, <1>3, <2>2 DEF FiledAs
  <2>4. n \in Given({"f", "o"})' /\ ~ (n <= k)
    BY <1>1, <1>2, <2>1
  <2>. QED
    BY <2>3, <2>4 DEF LastAt
<1>5. ASSUME a.opt = "C" PROVE LastAt(k)' <=> LastAt(k)
  <2>1. Given({"f", "o"})' = Given({"f", "o"})
    BY <1>1, <1>5
  <2>. QED
    BY <2>1 DEF LastAt
<1>6. ASSUME a.opt = "C", ~LastAt(k) PROVE FiledAs(out, k)'
  <2>1. Own(k)' = Own(k)
    BY <1>2, <1>6, OwnStays
  <2>. QED
    BY <1>2, <1>3, <2>1 DEF FiledAs
<1>7. ASSUME a.opt = "C", LastAt(k) PROVE n \in Own(k)'
  BY <1>2, <1>7, OwnStays
<1>8. ASSUME a.opt = "C", LastAt(k), NEW off, off.format = out.format, ~off.state
      PROVE  FiledAs(off, k)'
  BY <1>2, <1>3, <1>7, <1>8 DEF FiledAs
<1>. QED
  BY <1>2, <1>4, <1>5, <1>6, <1>8

Prepended(p, outs, f) ==
    /\ p \in Seq(Output)
    /\ Len(p) = Len(outs) + 1
    /\ p[1] = NewOutput(f)
    /\ \A i \in 1..Len(outs) : p[i + 1] = outs[i]

\* A new output is put before the others.
LEMMA OutputAdded ==
    ASSUME NEW outs \in Seq(Output), NEW f \in Frontends \union FormatArgs, NEW p,
           p = add_output(outs, f)
    PROVE  Prepended(p, outs, f)
  BY AddOutput DEF Prepended

\* -f: a new output for the format, which no -o has named yet.
LEMMA FormatBuilt ==
    ASSUME TypeOK, NEW f \in FormatArgs, NEW a, a = [opt |-> "f", format |-> f],
           args' = Append(args, a), NEW n, n = Len(args) + 1,
           NEW outs \in Seq(Output), Built(outs), outs # <<>> => Given({"f"}) # {}, NEW p, p = add_output(outs, f)
    PROVE  Built(p)'
<1>1. a \in Arg /\ a.opt = "f" /\ a.format = f
  BY DEF Arg
<1>2. /\ n \in Nat /\ n > 0 /\ Len(args) \in Nat /\ Len(args') = n
      /\ \A opts : Given(opts) \subseteq 1..Len(args)
      /\ \A opts : a.opt \in opts => Given(opts)' = Given(opts) \union {n}
      /\ \A opts : a.opt \notin opts => Given(opts)' = Given(opts)
  BY <1>1, Appended
<1>3. Given({"o"})' = Given({"o"}) /\ n \in Given({"f", "o"})'
  BY <1>1, <1>2
<1>4. /\ p \in Seq(Output)
      /\ Len(p) = Len(outs) + 1
      /\ p[1] = NewOutput(f)
      /\ \A i \in 1..Len(outs) : p[i + 1] = outs[i]
  BY AddOutput
<1>5. Len(outs) \in Nat /\ p # <<>>
  BY <1>4, LenProperties, EmptySeq
<1>6. p[1].file = NULL /\ p[1].format = f
  BY <1>4 DEF NewOutput
<1>7. Headed(p)'
  <2>1. FormatAt(n + 1)' = f
    BY <1>1, NextFormat
  <2>2. FreeHead'
    BY <1>1, FreeAfter
  <2>. QED
    BY <1>2, <1>5, <1>6, <2>1, <2>2 DEF Headed
<1>8. ASSUME NEW i \in 1..Len(p), p[i].file # NULL PROVE i - 1 \in 1..Len(outs) /\ p[i] = outs[i - 1] /\ i # 1
  <2>1. i # 1
    BY <1>6, <1>8
  <2>2. i - 1 \in 1..Len(outs) /\ (i - 1) + 1 = i
    BY <1>4, <1>5, <2>1
  <2>. QED
    BY <1>4, <2>1, <2>2
<1>9. Filed(p)'
  <2>. SUFFICES ASSUME NEW i \in 1..Len(p), NEW k \in Nat, p[i].file # NULL, p[i].file.at = k
                PROVE  FiledAs(p[i], k)' /\ i # 1 /\ ~LastAt(k)'
    BY DEF Filed
  <2>1. i - 1 \in 1..Len(outs) /\ p[i] = outs[i - 1] /\ i # 1
    BY <1>8
  <2>2. FiledAs(p[i], k)
    BY <2>1 DEF Built, Filed
  <2>. QED
    BY <1>1, <2>1, <2>2, FiledStays
<1>10. FiledOnce(p)'
  <2>1. ASSUME NEW i \in 1..Len(p), NEW j \in 1..Len(p), p[i].file # NULL, p[j].file # NULL,
               p[i].file.at = p[j].file.at
        PROVE  i = j
    <3>1. i - 1 \in 1..Len(outs) /\ p[i] = outs[i - 1] /\ j - 1 \in 1..Len(outs) /\ p[j] = outs[j - 1]
      BY <1>8, <2>1
    <3>2. i - 1 = j - 1
      BY <2>1, <3>1 DEF Built, FiledOnce
    <3>. QED
      BY <3>2
  <2>2. ASSUME NEW k \in Given({"o"}) PROVE \E i \in 1..Len(p) : p[i].file # NULL /\ p[i].file.at = k
    <3>1. PICK i \in 1..Len(outs) : outs[i].file # NULL /\ outs[i].file.at = k
      BY DEF Built, FiledOnce
    <3>2. i + 1 \in 1..Len(p) /\ p[i + 1] = outs[i]
      BY <1>4, <1>5
    <3>. QED
      BY <3>1, <3>2
  <2>. QED
    BY <1>3, <2>1, <2>2 DEF FiledOnce
<1>11. Counted(p)'
  <2>. SUFFICES ASSUME NEW h \in Frontends \union FormatArgs
                PROVE  Cardinality(Unnamed(p, h)) = Cardinality(Opens(h)') + Surplus(p, h)'
    BY DEF Counted, Unnamed
  <2>1. /\ f = h => Cardinality(Unnamed(p, h)) = Cardinality(Unnamed(outs, h)) + 1
        /\ f # h => Cardinality(Unnamed(p, h)) = Cardinality(Unnamed(outs, h))
    <3>1. f \in Frontends \union FormatArgs
      OBVIOUS
    <3>2. OneMore(p, outs, f, h)
      BY <3>1, UnnamedAdded
    <3>. QED
      BY <3>2 DEF OneMore
  <2>2. Surplus(p, h)' = 0
    BY <1>3 DEF Surplus
  <2>3. Surplus(outs, h) = 0
    <3>1. Given({"f"}) # {} => Given({"f", "o"}) # {}
      BY DEF Given
    <3>. QED
      BY <3>1 DEF Surplus
  <2>4. IsFiniteSet(Opens(h)) /\ Cardinality(Opens(h)) \in Nat
    BY OpensFinite
  <2>5. Cardinality(Unnamed(outs, h)) = Cardinality(Opens(h))
    BY <2>3, <2>4 DEF Built, Counted
  <2>6. CASE f = h
    <3>1. Opens(h)' = Opens(h) \union {n}
      BY <1>1, <2>6, OpensAfter
    <3>2. n \notin Opens(h)
      BY <1>2 DEF Opens
    <3>3. Cardinality(Opens(h) \union {n}) = Cardinality(Opens(h)) + 1
      BY <2>4, <3>2, FS_AddElement
    <3>. QED
      BY <2>1, <2>2, <2>4, <2>5, <2>6, <3>1, <3>3
  <2>7. CASE f # h
    <3>1. Opens(h)' = Opens(h)
      BY <1>1, <2>7, OpensAfter
    <3>. QED
      BY <2>1, <2>2, <2>4, <2>5, <2>7, <3>1
  <2>. QED
    BY <2>6, <2>7
<1>. QED
  BY <1>7, <1>9, <1>10, <1>11 DEF Built

\* -o names the first output, which no -o has named yet.
LEMMA FileBuilt ==
    ASSUME TypeOK, NEW d \in BOOLEAN, NEW a, a = [opt |-> "o", dash |-> d],
           args' = Append(args, a), NEW n, n = Len(args) + 1,
           NEW outs \in Seq(Output), Built(outs), Len(outs) > 0, outs[1].file = NULL,
           NEW file \in File, file.at = n, NEW p, p = [outs EXCEPT ![1].file = file]
    PROVE  Built(p)'
<1>1. a \in Arg /\ a.opt = "o"
  BY DEF Arg
<1>2. /\ n \in Nat /\ n > 0 /\ Len(args) \in Nat /\ Len(args') = n
      /\ \A opts : Given(opts) \subseteq 1..Len(args)
      /\ \A opts : a.opt \in opts => Given(opts)' = Given(opts) \union {n}
      /\ \A opts : a.opt \notin opts => Given(opts)' = Given(opts)
  BY <1>1, Appended
<1>3. Given({"o"})' = Given({"o"}) \union {n} /\ Given({"f"})' = Given({"f"})
      /\ Given({"f", "o"})' = Given({"f", "o"}) \union {n}
  BY <1>1, <1>2
<1>4. /\ p \in Seq(Output)
      /\ Len(p) = Len(outs)
      /\ file # NULL
      /\ p[1].file = file /\ p[1].format = outs[1].format /\ p[1].state = outs[1].state
      /\ \A i \in 1..Len(outs) : i # 1 => p[i] = outs[i]
      /\ \A h : Unnamed(p, h) = Unnamed(outs, h) \ {1}
  <2>1. Named(p, outs, file)
    BY FirstFiled
  <2>. QED
    BY <2>1 DEF Named
<1>5. Len(outs) \in Nat /\ outs # <<>> /\ p # <<>> /\ 1 \in 1..Len(p)
  BY <1>4, LenProperties
<1>6. outs[1].format = FormatAt(n) /\ FreeHead
  BY <1>2, <1>5 DEF Built, Headed
<1>7. Headed(p)'
  <2>1. FormatAt(n + 1)' = FormatAt(n)
    BY <1>1, NextFormat
  <2>2. ~FreeHead'
    BY <1>1, FreeAfter
  <2>. QED
    BY <1>2, <1>4, <1>5, <1>6, <2>1, <2>2 DEF Headed
<1>8. ASSUME NEW i \in 1..Len(p), NEW k \in Nat, i # 1, p[i].file # NULL, p[i].file.at = k
      PROVE  p[i] = outs[i] /\ FiledAs(p[i], k)' /\ ~LastAt(k)' /\ k # n
  <2>1. p[i] = outs[i] /\ i \in 1..Len(outs)
    BY <1>4, <1>8
  <2>2. FiledAs(p[i], k)
    BY <1>8, <2>1 DEF Built, Filed
  <2>3. k \in 1..Len(args) /\ FiledAs(p[i], k)' /\ ~LastAt(k)'
    BY <1>1, <2>2, FiledStays
  <2>. QED
    BY <1>2, <2>1, <2>3
<1>9. FiledAs(p[1], n)' /\ LastAt(n)'
  <2>1. Own(n)' = {}
    BY <1>1, OwnStays
  <2>2. FormatAt(n)' = FormatAt(n) /\ Second(n)' = Second(n)
    <3>1. n \in 1..n
      BY <1>2
    <3>. QED
      BY <1>1, <3>1, BeforeStays
  <2>3. ~Second(n)
    BY <1>1, <1>6, FreeAfter
  <2>4. FiledAs(p[1], n)'
    BY <1>3, <1>4, <1>6, <2>1, <2>2, <2>3 DEF FiledAs
  <2>5. LastAt(n)'
    BY <1>2, <1>3 DEF LastAt
  <2>. QED
    BY <2>4, <2>5
<1>10. Filed(p)'
  <2>. SUFFICES ASSUME NEW i \in 1..Len(p), NEW k \in Nat, p[i].file # NULL, p[i].file.at = k
                PROVE  FiledAs(p[i], k)' /\ ((i = 1) <=> LastAt(k)')
    BY DEF Filed
  <2>1. CASE i = 1
    BY <1>4, <1>9, <2>1
  <2>2. CASE i # 1
    BY <1>8, <2>2
  <2>. QED
    BY <2>1, <2>2
<1>11. FiledOnce(p)'
  <2>0. ASSUME NEW i \in 1..Len(p), i # 1, p[i].file # NULL
        PROVE  p[i] = outs[i] /\ p[i].file.at # n
    <3>1. p[i] \in Output
      BY <1>4, ElementOfSeq
    <3>2. p[i].file.at \in Nat
      BY <2>0, <3>1 DEF Output, File
    <3>. QED
      BY <1>8, <2>0, <3>2
  <2>1. ASSUME NEW i \in 1..Len(p), NEW j \in 1..Len(p), p[i].file # NULL, p[j].file # NULL,
               p[i].file.at = p[j].file.at
        PROVE  i = j
    <3>1. CASE i # 1 /\ j # 1
      <4>1. p[i] = outs[i] /\ p[j] = outs[j] /\ i \in 1..Len(outs) /\ j \in 1..Len(outs)
        BY <1>4, <2>0, <2>1, <3>1
      <4>2. outs[i].file # NULL /\ outs[j].file # NULL /\ outs[i].file.at = outs[j].file.at
        BY <2>1, <4>1
      <4>3. FiledOnce(outs)
        BY DEF Built
      <4>. QED
        BY <4>1, <4>2, <4>3 DEF FiledOnce
    <3>2. CASE i = 1 /\ j # 1
      BY <1>4, <2>0, <2>1, <3>2
    <3>3. CASE i # 1 /\ j = 1
      BY <1>4, <2>0, <2>1, <3>3
    <3>. QED
      BY <3>1, <3>2, <3>3
  <2>2. ASSUME NEW k \in Given({"o"}) PROVE \E i \in 1..Len(p) : p[i].file # NULL /\ p[i].file.at = k
    <3>1. PICK i \in 1..Len(outs) : outs[i].file # NULL /\ outs[i].file.at = k
      BY DEF Built, FiledOnce
    <3>2. i \in 1..Len(p) /\ p[i] = outs[i]
      BY <1>4, <3>1
    <3>. QED
      BY <3>1, <3>2
  <2>3. \E i \in 1..Len(p) : p[i].file # NULL /\ p[i].file.at = n
    BY <1>4, <1>5
  <2>. QED
    BY <1>3, <2>1, <2>2, <2>3 DEF FiledOnce
<1>12. Counted(p)'
  <2>. SUFFICES ASSUME NEW h \in Frontends \union FormatArgs
                PROVE  Cardinality(Unnamed(p, h)) = Cardinality(Opens(h)') + Surplus(p, h)'
    BY DEF Counted, Unnamed
  <2>1. Surplus(p, h)' = 0
    BY <1>3 DEF Surplus
  <2>2. IsFiniteSet(Opens(h)) /\ Cardinality(Opens(h)) \in Nat
    BY OpensFinite
  <2>3. IsFiniteSet(Unnamed(outs, h)) /\ Cardinality(Unnamed(outs, h)) \in Nat
    BY UnnamedFinite
  <2>4. Cardinality(Unnamed(outs, h)) = Cardinality(Opens(h)) + Surplus(outs, h)
    BY DEF Built, Counted
  <2>5. 1 \in Unnamed(outs, h) <=> h = FormatAt(n)
    BY <1>4, <1>5, <1>6 DEF Unnamed
  <2>6. h = FormatAt(n) => Cardinality(Unnamed(p, h)) = Cardinality(Unnamed(outs, h)) - 1
    BY <1>4, <2>3, <2>5, FS_RemoveElement
  <2>7. h # FormatAt(n) => Cardinality(Unnamed(p, h)) = Cardinality(Unnamed(outs, h))
    <3>0. Unnamed(p, h) = Unnamed(outs, h) \ {1}
      BY <1>4
    <3>1. h # FormatAt(n) => Unnamed(p, h) = Unnamed(outs, h)
      BY <2>5, <3>0, Zenon
    <3>. QED
      BY <3>1
  <2>. DEFINE Rest == {k \in Opens(h) : \E f \in Given({"f"}) : k < f}
  <2>8. Opens(h)' = Rest
    BY <1>1, OpensAfter
  <2>. HIDE DEF Rest
  <2>9. CASE Given({"f"}) = {}
    <3>1. Opens(h) = {} /\ Rest = {}
      BY <2>9 DEF Opens, Rest
    <3>2. Given({"o"}) = {} /\ Given({"f", "o"}) = {}
      <4>1. Given({"o"}) = {}
        BY <1>6, <2>9 DEF FreeHead
      <4>. QED
        BY <2>9, <4>1 DEF Given
    <3>3. FormatAt(n) = DefaultFormat
      BY <2>9 DEF FormatAt
    <3>4. Surplus(outs, h) = IF h = DefaultFormat THEN 1 ELSE 0
      BY <1>5, <3>2 DEF Surplus
    <3>5. Cardinality(Opens(h)) = 0 /\ Cardinality(Opens(h)') = 0
      BY <2>8, <3>1, FS_EmptySet
    <3>6. CASE h = DefaultFormat
      BY <2>1, <2>4, <2>6, <3>3, <3>4, <3>5, <3>6
    <3>7. CASE h # DefaultFormat
      BY <2>1, <2>4, <2>7, <3>3, <3>4, <3>5, <3>7
    <3>. QED
      BY <3>6, <3>7
  <2>10. CASE Given({"f"}) # {}
    <3>1. Surplus(outs, h) = 0
      <4>1. Given({"f", "o"}) # {}
        BY <2>10 DEF Given
      <4>. QED
        BY <4>1 DEF Surplus
    <3>2. CASE h = FormatAt(n)
      <4>1. \E l \in Opens(h) : Rest = Opens(h) \ {l}
        BY <1>6, <2>10, <3>2, LastOpen DEF Rest
      <4>2. Cardinality(Rest) = Cardinality(Opens(h)) - 1
        BY <2>2, <4>1, FS_RemoveElement
      <4>. QED
        BY <2>1, <2>2, <2>4, <2>6, <2>8, <3>1, <3>2, <4>2
    <3>3. CASE h # FormatAt(n)
      <4>1. Rest = Opens(h)
        BY <1>6, <2>10, <3>3, LastOpen DEF Rest
      <4>. QED
        BY <2>1, <2>2, <2>4, <2>7, <2>8, <3>1, <3>3, <4>1
    <3>. QED
      BY <3>2, <3>3
  <2>. QED
    BY <2>9, <2>10
<1>. QED
  BY <1>7, <1>10, <1>11, <1>12 DEF Built

\* A further -o starts another output in the format of the last.
LEMMA CloneBuilt ==
    ASSUME TypeOK, NEW d \in BOOLEAN, NEW a, a = [opt |-> "o", dash |-> d],
           args' = Append(args, a), NEW n, n = Len(args) + 1,
           NEW outs \in Seq(Output), Built(outs), Len(outs) > 0, outs[1].file # NULL,
           NEW file \in File, file.at = n,
           NEW q, q = add_output(outs, outs[1].format), NEW p, p = [q EXCEPT ![1].file = file]
    PROVE  Built(p)'
<1>1. a \in Arg /\ a.opt = "o"
  BY DEF Arg
<1>2. /\ n \in Nat /\ n > 0 /\ Len(args) \in Nat /\ Len(args') = n
      /\ \A opts : Given(opts) \subseteq 1..Len(args)
      /\ \A opts : a.opt \in opts => Given(opts)' = Given(opts) \union {n}
      /\ \A opts : a.opt \notin opts => Given(opts)' = Given(opts)
  BY <1>1, Appended
<1>3. Given({"o"})' = Given({"o"}) \union {n} /\ Given({"f"})' = Given({"f"})
      /\ Given({"f", "o"})' = Given({"f", "o"}) \union {n}
  BY <1>1, <1>2
<1>. DEFINE g == outs[1].format
<1>4. g \in Frontends \union FormatArgs
  <2>1. outs[1] \in Output
    BY LenProperties, ElementOfSeq
  <2>. QED
    BY <2>1 DEF Output
<1>5. /\ q \in Seq(Output)
      /\ Len(q) = Len(outs) + 1
      /\ q[1] = NewOutput(g)
      /\ \A i \in 1..Len(outs) : q[i + 1] = outs[i]
  <2>1. q = add_output(outs, g)
    OBVIOUS
  <2>. HIDE DEF g
  <2>2. Prepended(q, outs, g)
    BY <1>4, <2>1, OutputAdded
  <2>. QED
    BY <2>2 DEF Prepended
<1>6. Len(outs) \in Nat /\ Len(q) > 0 /\ q[1].format = g /\ q[1].state = TRUE
  BY <1>5, LenProperties DEF NewOutput
<1>7. /\ p \in Seq(Output)
      /\ Len(p) = Len(outs) + 1
      /\ file # NULL
      /\ p[1].file = file /\ p[1].format = g /\ p[1].state
      /\ \A i \in 1..Len(outs) : p[i + 1] = outs[i]
      /\ \A h : Unnamed(p, h) = Unnamed(q, h) \ {1}
  <2>1. Named(p, q, file)
    BY <1>5, <1>6, FirstFiled
  <2>2. \A i \in 1..Len(outs) : p[i + 1] = q[i + 1]
    <3>. TAKE i \in 1..Len(outs)
    <3>1. i + 1 \in 1..Len(q) /\ i + 1 # 1
      BY <1>5, <1>6
    <3>. QED
      BY <2>1, <3>1 DEF Named
  <2>. QED
    BY <1>5, <1>6, <2>1, <2>2 DEF Named
<1>8. outs # <<>> /\ p # <<>> /\ 1 \in 1..Len(p)
  BY <1>6, <1>7, LenProperties
<1>9. g = FormatAt(n) /\ ~FreeHead
  BY <1>2, <1>8 DEF Built, Headed
<1>. HIDE DEF g
<1>10. Headed(p)'
  <2>1. FormatAt(n + 1)' = FormatAt(n)
    BY <1>1, NextFormat
  <2>2. ~FreeHead'
    BY <1>1, FreeAfter
  <2>. QED
    BY <1>2, <1>7, <1>8, <1>9, <2>1, <2>2 DEF Headed
<1>11. ASSUME NEW i \in 1..Len(p), i # 1 PROVE i - 1 \in 1..Len(outs) /\ p[i] = outs[i - 1]
  <2>1. i - 1 \in 1..Len(outs) /\ (i - 1) + 1 = i
    BY <1>6, <1>7, <1>11
  <2>. QED
    BY <1>7, <2>1
<1>12. ASSUME NEW i \in 1..Len(p), NEW k \in Nat, i # 1, p[i].file # NULL, p[i].file.at = k
       PROVE  FiledAs(p[i], k)' /\ ~LastAt(k)' /\ k # n
  <2>1. p[i] = outs[i - 1] /\ i - 1 \in 1..Len(outs)
    BY <1>11, <1>12
  <2>2. FiledAs(p[i], k)
    <3>1. PICK j \in 1..Len(outs) : p[i] = outs[j]
      BY <2>1
    <3>2. Filed(outs) /\ outs[j].file # NULL /\ outs[j].file.at = k
      BY <1>12, <3>1 DEF Built
    <3>3. FiledAs(outs[j], k)
      BY <3>2 DEF Filed
    <3>. QED
      BY <3>1, <3>3
  <2>3. k \in 1..Len(args) /\ FiledAs(p[i], k)' /\ ~LastAt(k)'
    BY <1>1, <2>2, FiledStays
  <2>. QED
    BY <1>2, <2>3
<1>13. FiledAs(p[1], n)' /\ LastAt(n)'
  <2>1. Own(n)' = {}
    BY <1>1, OwnStays
  <2>2. FormatAt(n)' = FormatAt(n)
    <3>1. n \in 1..n
      BY <1>2
    <3>. QED
      BY <1>1, <3>1, BeforeStays
  <2>3. FiledAs(p[1], n)'
    BY <1>3, <1>7, <1>9, <2>1, <2>2 DEF FiledAs
  <2>4. LastAt(n)'
    BY <1>2, <1>3 DEF LastAt
  <2>. QED
    BY <2>3, <2>4
<1>14. Filed(p)'
  <2>. SUFFICES ASSUME NEW i \in 1..Len(p), NEW k \in Nat, p[i].file # NULL, p[i].file.at = k
                PROVE  FiledAs(p[i], k)' /\ ((i = 1) <=> LastAt(k)')
    BY DEF Filed
  <2>1. CASE i = 1
    BY <1>7, <1>13, <2>1
  <2>2. CASE i # 1
    BY <1>12, <2>2
  <2>. QED
    BY <2>1, <2>2
<1>15. FiledOnce(p)'
  <2>0. ASSUME NEW i \in 1..Len(p), i # 1, p[i].file # NULL PROVE p[i].file.at # n
    <3>1. p[i] \in Output
      BY <1>7, ElementOfSeq
    <3>2. p[i].file.at \in Nat
      BY <2>0, <3>1 DEF Output, File
    <3>. QED
      BY <1>12, <2>0, <3>2
  <2>1. ASSUME NEW i \in 1..Len(p), NEW j \in 1..Len(p), p[i].file # NULL, p[j].file # NULL,
               p[i].file.at = p[j].file.at
        PROVE  i = j
    <3>1. CASE i # 1 /\ j # 1
      <4>1. p[i] = outs[i - 1] /\ p[j] = outs[j - 1] /\ i - 1 \in 1..Len(outs) /\ j - 1 \in 1..Len(outs)
        BY <1>11, <3>1
      <4>2. FiledOnce(outs)
        BY DEF Built
      <4>3. i - 1 = j - 1
        BY <2>1, <4>1, <4>2 DEF FiledOnce
      <4>. QED
        BY <4>3
    <3>2. CASE i = 1 /\ j # 1
      BY <1>7, <2>0, <2>1, <3>2
    <3>3. CASE i # 1 /\ j = 1
      BY <1>7, <2>0, <2>1, <3>3
    <3>. QED
      BY <3>1, <3>2, <3>3
  <2>2. ASSUME NEW k \in Given({"o"}) PROVE \E i \in 1..Len(p) : p[i].file # NULL /\ p[i].file.at = k
    <3>1. PICK i \in 1..Len(outs) : outs[i].file # NULL /\ outs[i].file.at = k
      BY DEF Built, FiledOnce
    <3>2. i + 1 \in 1..Len(p) /\ p[i + 1] = outs[i]
      BY <1>6, <1>7, <3>1
    <3>. QED
      BY <3>1, <3>2
  <2>3. \E i \in 1..Len(p) : p[i].file # NULL /\ p[i].file.at = n
    BY <1>7, <1>8
  <2>. QED
    BY <1>3, <2>1, <2>2, <2>3 DEF FiledOnce
<1>16. Counted(p)'
  <2>. SUFFICES ASSUME NEW h \in Frontends \union FormatArgs
                PROVE  Cardinality(Unnamed(p, h)) = Cardinality(Opens(h)') + Surplus(p, h)'
    BY DEF Counted, Unnamed
  <2>1. Surplus(p, h)' = 0
    BY <1>3 DEF Surplus
  <2>2. Surplus(outs, h) = 0
    <3>1. Given({"o"}) # {}
      BY <1>9 DEF FreeHead
    <3>2. Given({"f", "o"}) # {}
      BY <3>1 DEF Given
    <3>. QED
      BY <3>2 DEF Surplus
  <2>3. Cardinality(Opens(h)) \in Nat
    BY OpensFinite
  <2>4. Cardinality(Unnamed(outs, h)) = Cardinality(Opens(h))
    BY <2>2, <2>3 DEF Built, Counted
  <2>5. Cardinality(Unnamed(p, h)) = Cardinality(Unnamed(outs, h))
    <3>1. OneMore(q, outs, g, h)
      BY <1>4, UnnamedAdded DEF g
    <3>2. Unnamed(p, h) = Unnamed(q, h) \ {1}
      BY <1>7
    <3>. QED
      BY <3>1, <3>2 DEF OneMore
  <2>6. Opens(h)' = Opens(h)
    <3>1. Opens(h)' = {k \in Opens(h) : \E f \in Given({"f"}) : k < f}
      BY <1>1, OpensAfter
    <3>. QED
      BY <1>9, <3>1, LastOpen
  <2>. QED
    BY <2>1, <2>3, <2>4, <2>5, <2>6
<1>. QED
  BY <1>10, <1>14, <1>15, <1>16 DEF Built

\* -C clears the state of the first output.
LEMMA StateBuilt ==
    ASSUME TypeOK, NEW a, a = [opt |-> "C"], args' = Append(args, a), NEW n, n = Len(args) + 1,
           NEW outs \in Seq(Output), Built(outs), Len(outs) > 0,
           NEW p, p = [outs EXCEPT ![1].state = FALSE]
    PROVE  Built(p)'
<1>1. a \in Arg /\ a.opt = "C"
  BY DEF Arg
<1>2. /\ n \in Nat /\ n > 0 /\ Len(args) \in Nat /\ Len(args') = n
      /\ \A opts : Given(opts) \subseteq 1..Len(args)
      /\ \A opts : a.opt \in opts => Given(opts)' = Given(opts) \union {n}
      /\ \A opts : a.opt \notin opts => Given(opts)' = Given(opts)
  BY <1>1, Appended
<1>3. Given({"o"})' = Given({"o"}) /\ Given({"f", "o"})' = Given({"f", "o"})
  BY <1>1, <1>2
<1>4. Cleared(p, outs)
  BY FirstCleared
<1>5. Len(outs) \in Nat /\ outs # <<>> /\ p # <<>> /\ Len(p) = Len(outs)
  BY <1>4, LenProperties DEF Cleared
<1>6. \A i \in 1..Len(outs) : p[i].file = outs[i].file
  BY <1>4 DEF Cleared
<1>7. Headed(p)'
  <2>1. FormatAt(n + 1)' = FormatAt(n)
    BY <1>1, NextFormat
  <2>2. FreeHead' <=> FreeHead
    BY <1>1, FreeAfter
  <2>3. outs[1].format = FormatAt(n) /\ (outs[1].file = NULL <=> FreeHead)
    BY <1>2, <1>5 DEF Built, Headed
  <2>4. p[1].file = outs[1].file /\ p[1].format = outs[1].format
    BY <1>4 DEF Cleared
  <2>. QED
    BY <1>2, <1>5, <2>1, <2>2, <2>3, <2>4 DEF Headed
<1>8. Filed(p)'
  <2>. SUFFICES ASSUME NEW i \in 1..Len(p), NEW k \in Nat, p[i].file # NULL, p[i].file.at = k
                PROVE  FiledAs(p[i], k)' /\ ((i = 1) <=> LastAt(k)')
    BY DEF Filed
  <2>1. FiledAs(outs[i], k) /\ ((i = 1) <=> LastAt(k))
    BY <1>5, <1>6 DEF Built, Filed
  <2>2. LastAt(k)' <=> LastAt(k)
    BY <1>1, <2>1, FiledStays
  <2>3. CASE i = 1
    <3>1. p[i].format = outs[i].format /\ ~p[i].state
      BY <1>4, <2>3 DEF Cleared
    <3>. QED
      BY <1>1, <2>1, <2>2, <2>3, <3>1, FiledStays
  <2>4. CASE i # 1
    <3>1. p[i] = outs[i]
      BY <1>4, <1>5, <2>4 DEF Cleared
    <3>. QED
      BY <1>1, <2>1, <2>2, <2>4, <3>1, FiledStays
  <2>. QED
    BY <2>3, <2>4
<1>9. FiledOnce(p)'
  <2>1. FiledOnce(outs)
    BY DEF Built
  <2>. QED
    BY <1>3, <1>5, <1>6, <2>1 DEF FiledOnce
<1>10. Counted(p)'
  <2>. SUFFICES ASSUME NEW h \in Frontends \union FormatArgs
                PROVE  Cardinality(Unnamed(p, h)) = Cardinality(Opens(h)') + Surplus(p, h)'
    BY DEF Counted, Unnamed
  <2>1. Surplus(p, h)' = Surplus(outs, h)
    BY <1>3, <1>5 DEF Surplus
  <2>2. Opens(h)' = Opens(h)
    BY <1>1, OpensAfter
  <2>3. Unnamed(p, h) = Unnamed(outs, h)
    BY <1>4 DEF Cleared
  <2>4. Cardinality(Unnamed(outs, h)) = Cardinality(Opens(h)) + Surplus(outs, h)
    BY DEF Built, Counted
  <2>. QED
    BY <2>1, <2>2, <2>3, <2>4
<1>. QED
  BY <1>7, <1>8, <1>9, <1>10 DEF Built

\* require_format: with no option given, the default format goes to standard
\* output.
LEMMA RequiredBuilt ==
    ASSUME TypeOK, NEW outs \in Seq(Output), Built(outs), NEW p,
           p = IF outs = <<>> THEN add_output(outs, DefaultFormat) ELSE outs
    PROVE  Built(p) /\ p \in Seq(Output) /\ Len(p) > 0
<1>1. CASE outs # <<>>
  BY <1>1, LenProperties, EmptySeq
<1>2. CASE outs = <<>>
  <2>1. args = <<>> /\ Len(args) = 0 /\ Len(outs) = 0
    BY <1>2 DEF Built, Headed
  <2>2. \A opts : Given(opts) = {}
    BY <2>1 DEF Given
  <2>3. /\ p \in Seq(Output)
        /\ Len(p) = 1
        /\ p[1] = NewOutput(DefaultFormat)
    <3>1. Prepended(p, outs, DefaultFormat)
      BY <1>2, OutputAdded
    <3>. QED
      BY <2>1, <3>1 DEF Prepended
  <2>4. p # <<>> /\ p[1].file = NULL /\ p[1].format = DefaultFormat
    BY <2>3 DEF NewOutput
  <2>5. Headed(p)
    BY <2>1, <2>2, <2>4 DEF Headed, FormatAt, FreeHead
  <2>6. Filed(p) /\ FiledOnce(p)
    BY <2>2, <2>3, <2>4 DEF Filed, FiledOnce
  <2>7. Counted(p)
    <3>. SUFFICES ASSUME NEW h \in Frontends \union FormatArgs
                  PROVE  Cardinality(Unnamed(p, h)) = Cardinality(Opens(h)) + Surplus(p, h)
      BY DEF Counted
    <3>1. Cardinality(Opens(h)) = 0
      <4>1. Opens(h) = {}
        BY <2>2 DEF Opens
      <4>. QED
        BY <4>1, FS_EmptySet
    <3>2. Surplus(p, h) = IF h = DefaultFormat THEN 1 ELSE 0
      BY <2>2, <2>4 DEF Surplus
    <3>3. CASE h = DefaultFormat
      <4>1. Unnamed(p, h) = {1}
        BY <2>3, <2>4, <3>3 DEF Unnamed
      <4>2. Cardinality({1}) = 1
        BY FS_Singleton
      <4>3. Cardinality(Unnamed(p, h)) = 1
        BY <4>1, <4>2
      <4>4. Surplus(p, h) = 1
        BY <3>2, <3>3
      <4>. QED
        BY <3>1, <4>3, <4>4
    <3>4. CASE h # DefaultFormat
      <4>1. Unnamed(p, h) = {}
        BY <2>3, <2>4, <3>4 DEF Unnamed
      <4>2. Cardinality({}) = 0
        BY FS_EmptySet
      <4>3. Cardinality(Unnamed(p, h)) = 0
        BY <4>1, <4>2
      <4>4. Surplus(p, h) = 0
        BY <3>2, <3>4
      <4>. QED
        BY <3>1, <4>3, <4>4
    <3>. QED
      BY <3>3, <3>4
  <2>. QED
    BY <2>3, <2>5, <2>6, <2>7 DEF Built
<1>. QED
  BY <1>1, <1>2

\* The options up to here are the same.
LEMMA BuiltKept == ASSUME NEW outs, Built(outs), args' = args PROVE Built(outs)'
<1>1. /\ \A opts : Given(opts)' = Given(opts)
      /\ \A i, j : Between(i, j)' = Between(i, j)
  BY DEF Given, Between
<1>2. \A k : FormatAt(k)' = FormatAt(k) /\ Second(k)' = Second(k) /\ Own(k)' = Own(k)
  BY <1>1 DEF FormatAt, Second, Own
<1>3. /\ FreeHead' <=> FreeHead
      /\ \A k : LastAt(k)' <=> LastAt(k)
      /\ \A h : Opens(h)' = Opens(h)
  BY <1>1 DEF FreeHead, LastAt, Opens, Unfiled
<1>4. \A out, k : FiledAs(out, k) => FiledAs(out, k)'
  BY <1>1, <1>2 DEF FiledAs
<1>5. Headed(outs)'
  BY <1>2, <1>3 DEF Built, Headed
<1>6. Filed(outs)'
  BY <1>3, <1>4 DEF Built, Filed
<1>7. FiledOnce(outs)'
  BY <1>1 DEF Built, FiledOnce
<1>8. Counted(outs)'
  <2>1. \A h : Surplus(outs, h)' = Surplus(outs, h)
    BY <1>1 DEF Surplus
  <2>. QED
    BY <1>3, <2>1 DEF Built, Counted, Unnamed
<1>. QED
  BY <1>5, <1>6, <1>7, <1>8 DEF Built

\* In a finished run the written outputs are what the options say.
LEMMA BuiltWritten ==
    ASSUME TypeOK, NEW outs, outs = written, outs # <<>>, Built(outs)
    PROVE  /\ \A k \in Given({"o"}) : Cardinality(OfFile(k)) = 1
           /\ \A k \in Given({"o"}) : \A i \in OfFile(k) : FiledAs(outs[i], k)
           /\ Counted(outs)
<1>1. ASSUME NEW k \in Given({"o"}), NEW i \in OfFile(k) PROVE FiledAs(outs[i], k)
  <2>1. i \in 1..Len(outs) /\ outs[i].file # NULL /\ outs[i].file.at = k
    BY DEF OfFile
  <2>2. k \in Nat
    BY DEF Given
  <2>3. Filed(outs)
    BY DEF Built
  <2>. QED
    BY <2>1, <2>2, <2>3 DEF Filed
<1>2. ASSUME NEW k \in Given({"o"}) PROVE Cardinality(OfFile(k)) = 1
  <2>1. FiledOnce(outs)
    BY DEF Built
  <2>2. PICK i \in 1..Len(outs) : outs[i].file # NULL /\ outs[i].file.at = k
    BY <2>1 DEF FiledOnce
  <2>3. OfFile(k) = {i}
    BY <2>1, <2>2 DEF FiledOnce, OfFile
  <2>. QED
    BY <2>3, FS_Singleton
<1>. QED
  BY <1>1, <1>2 DEF Built

\* Every step keeps what is known of the outputs.
LEMMA OutputsStep == IInv /\ IInv' /\ Outputs /\ [Next]_vars => Outputs'
<1>. SUFFICES ASSUME IInv, IInv', Outputs, [Next]_vars PROVE Outputs'
  OBVIOUS
<1>0. TypeOK /\ TypeOK' /\ outputs \in Seq(Output) /\ args \in Seq(Arg) /\ Len(args) \in Nat
  BY LenProperties DEF IInv, TypeOK
<1>1. ASSUME NEW f \in FormatArgs, add_format(f) PROVE Outputs'
  <2>1. pc = "parse" /\ pc' = "parse" /\ ~usedDefault /\ outputs' = add_output(outputs, f)
        /\ args' = Append(args, [opt |-> "f", format |-> f])
    BY <1>1 DEF add_format, Option, LateFormat
  <2>2. PICK q : q = outputs /\ Built(q)
    BY <2>1 DEF Outputs
  <2>3. q # <<>> => Given({"f"}) # {}
    BY <2>1, <2>2 DEF Outputs
  <2>. DEFINE p == add_output(q, f)
              a == [opt |-> "f", format |-> f]
  <2>4. Built(p)'
    <3>1. ASSUME NEW b, b = a, NEW r, r = add_output(q, f), NEW n, n = Len(args) + 1
          PROVE  Built(r)'
      BY <1>0, <2>1, <2>2, <2>3, <3>1, FormatBuilt
    <3>. QED
      BY <3>1
  <2>5. p = outputs'
    BY <2>1, <2>2
  <2>6. Given({"f"})' # {}
    <3>1. Len(args') = Len(args) + 1 /\ args'[Len(args) + 1] = a
      BY <1>0, <2>1, AppendProperties DEF Arg
    <3>. QED
      BY <1>0, <3>1 DEF Given
  <2>. HIDE DEF p, a
  <2>. QED
    BY <2>1, <2>4, <2>5, <2>6 DEF Outputs
<1>2. ASSUME NEW f \in FormatArgs, FormatRefused(f) PROVE Outputs'
  BY <1>2 DEF FormatRefused, Outputs
<1>. DEFINE First(q) == IF q = <<>> THEN add_output(q, DefaultFormat) ELSE q
<1>3. ASSUME pc = "parse"
      PROVE  \E r \in Seq(Output) : r = Required /\ Built(r) /\ Len(r) > 0
  <2>1. PICK q : q = outputs /\ Built(q)
    BY <1>3 DEF Outputs
  <2>2. ASSUME NEW r, r = First(q) PROVE Built(r) /\ r \in Seq(Output) /\ Len(r) > 0
    BY <1>0, <2>1, <2>2, RequiredBuilt
  <2>3. Required = First(q)
    BY <2>1 DEF Required
  <2>. HIDE DEF First
  <2>. QED
    BY <2>2, <2>3
<1>4. ASSUME NEW d \in BOOLEAN, set_output(d) PROVE Outputs'
  <2>. DEFINE a == [opt |-> "o", dash |-> d]
  <2>1. pc = "parse" /\ pc' = "parse" /\ Len(args) < MaxArgs
        /\ args' = Append(args, a) /\ usedDefault' = (usedDefault \/ outputs = <<>>)
    BY <1>4 DEF set_output, Option
  <2>2. PICK r \in Seq(Output) : r = Required /\ Built(r) /\ Len(r) > 0
    BY <1>3, <2>1
  <2>3. PICK n : n = Len(args) + 1
    OBVIOUS
  <2>4. PICK file \in File : file = [at |-> n, dash |-> d] /\ file.at = n
    <3>1. n \in 1..MaxArgs
      BY <1>0, <2>1, <2>3
    <3>2. [at |-> n, dash |-> d] \in File
      BY <3>1 DEF File
    <3>. QED
      BY <3>2
  <2>5. outputs' = [ForFile(r) EXCEPT ![1].file = file]
    BY <1>4, <2>2, <2>3, <2>4 DEF set_output
  <2>6. PICK p : p = outputs'
    OBVIOUS
  <2>. HIDE DEF a
  <2>7. Built(p)'
    <3>1. CASE r[1].file = NULL
      <4>1. p = [r EXCEPT ![1].file = file]
        BY <2>5, <2>6, <3>1 DEF ForFile
      <4>2. ASSUME NEW b, b = a PROVE Built(p)'
        BY <1>0, <2>1, <2>2, <2>3, <2>4, <3>1, <4>1, <4>2, FileBuilt DEF a
      <4>. QED
        BY <4>2
    <3>2. CASE r[1].file # NULL
      <4>1. PICK q : q = add_output(r, r[1].format)
        OBVIOUS
      <4>2. p = [q EXCEPT ![1].file = file]
        BY <2>5, <2>6, <3>2, <4>1 DEF ForFile
      <4>3. ASSUME NEW b, b = a PROVE Built(p)'
        BY <1>0, <2>1, <2>2, <2>3, <2>4, <3>2, <4>1, <4>2, <4>3, CloneBuilt DEF a
      <4>. QED
        BY <4>3
    <3>. QED
      BY <3>1, <3>2
  <2>8. Given({"f"})' = Given({"f"})
    <3>1. a \in Arg /\ a.opt = "o"
      BY DEF a, Arg
    <3>. QED
      BY <1>0, <2>1, <2>3, <3>1, Appended
  <2>9. (outputs # <<>> /\ Given({"f"}) = {} => usedDefault) => (Given({"f"})' = {} => usedDefault')
    BY <2>1, <2>8
  <2>. QED
    BY <2>1, <2>6, <2>7, <2>9 DEF Outputs
<1>5. ASSUME set_nostate PROVE Outputs'
  <2>. DEFINE a == [opt |-> "C"]
  <2>1. pc = "parse" /\ pc' = "parse" /\ args' = Append(args, a)
        /\ usedDefault' = (usedDefault \/ outputs = <<>>)
    BY <1>5 DEF set_nostate, Option
  <2>2. PICK r \in Seq(Output) : r = Required /\ Built(r) /\ Len(r) > 0
    BY <1>3, <2>1
  <2>3. PICK n : n = Len(args) + 1
    OBVIOUS
  <2>4. PICK p : p = outputs'
    OBVIOUS
  <2>5. p = [r EXCEPT ![1].state = FALSE]
    BY <1>5, <2>2, <2>4 DEF set_nostate
  <2>. HIDE DEF a
  <2>6. Built(p)'
    <3>1. ASSUME NEW b, b = a PROVE Built(p)'
      BY <1>0, <2>1, <2>2, <2>3, <2>5, <3>1, StateBuilt DEF a
    <3>. QED
      BY <3>1
  <2>7. Given({"f"})' = Given({"f"})
    <3>1. a \in Arg /\ a.opt = "C"
      BY DEF a, Arg
    <3>. QED
      BY <1>0, <2>1, <2>3, <3>1, Appended
  <2>8. (outputs # <<>> /\ Given({"f"}) = {} => usedDefault) => (Given({"f"})' = {} => usedDefault')
    BY <2>1, <2>7
  <2>. QED
    BY <2>1, <2>4, <2>6, <2>8 DEF Outputs
<1>6. CASE Stop
  BY <1>6 DEF Stop, Outputs
<1>7. CASE StartOutput
  <2>1. pc = "parse" /\ pc' = "resolve" /\ outputs' = Required /\ args' = args
    BY <1>7 DEF StartOutput
  <2>2. PICK r \in Seq(Output) : r = Required /\ Built(r) /\ Len(r) > 0
    BY <1>3, <2>1
  <2>3. Built(r)'
    BY <2>1, <2>2, BuiltKept
  <2>4. r # <<>>
    BY <2>2
  <2>. QED
    BY <2>1, <2>2, <2>3, <2>4 DEF Outputs
<1>8. ASSUME args' = args, outputs' = outputs, pc \in {"parse", "resolve", "write"}
      PROVE  \E q : q = outputs' /\ Built(q)'
  <2>1. PICK q : q = outputs /\ Built(q)
    BY <1>8 DEF Outputs
  <2>2. Built(q)'
    BY <1>8, <2>1, BuiltKept
  <2>. QED
    BY <1>8, <2>1, <2>2
<1>9. CASE Resolve
  <2>1. pc = "resolve" /\ pc' \in {"resolve", "exit"} /\ args' = args /\ outputs' = outputs
    BY <1>9 DEF Resolve
  <2>. QED
    BY <1>8, <2>1 DEF Outputs
<1>10. CASE StartWriting
  <2>1. pc = "resolve" /\ pc' = "write" /\ args' = args /\ outputs' = outputs /\ written' = <<>> /\ idx' = 1
    BY <1>10 DEF StartWriting, IInv, FormatsListed
  <2>2. Len(written') = 0 /\ Len(outputs) \in Nat
    BY <1>0, <2>1, LenProperties
  <2>. QED
    BY <1>8, <2>1, <2>2 DEF Outputs
<1>11. CASE Write
  <2>1. pc = "write" /\ pc' = "write" /\ args' = args /\ outputs' = outputs /\ idx' = idx + 1
        /\ idx <= Len(outputs) /\ written' = Append(written, outputs[idx])
    BY <1>11 DEF Write
  <2>2. idx \in Nat /\ written \in Seq(Output) /\ idx \in 1..Len(outputs) /\ Len(outputs) \in Nat
    BY <1>0, <2>1, LenProperties DEF IInv, TypeOK, IdxPositive
  <2>3. outputs[idx] \in Output
    BY <1>0, <2>2, ElementOfSeq
  <2>4. /\ Len(written') = Len(written) + 1
        /\ \A i \in 1..Len(written) : written'[i] = written[i]
        /\ written'[Len(written) + 1] = outputs[idx]
    BY <2>1, <2>2, <2>3, AppendProperties
  <2>5. Len(written) = idx - 1 /\ \A i \in 1..Len(written) : written[i] = outputs[i]
    BY <2>1 DEF Outputs
  <2>6. \A i \in 1..Len(written') : written'[i] = outputs'[i]
    BY <2>1, <2>2, <2>4, <2>5
  <2>7. idx' <= Len(outputs') + 1 /\ Len(written') = idx' - 1
    BY <2>1, <2>2, <2>4, <2>5
  <2>8. outputs' # <<>>
    BY <2>1 DEF Outputs
  <2>. QED
    BY <1>8, <2>1, <2>6, <2>7, <2>8 DEF Outputs
<1>12. CASE WriteFails
  BY <1>12 DEF WriteFails, Outputs
<1>13. CASE Cleanup
  <2>1. pc = "write" /\ idx = Len(outputs) + 1 /\ pc' = "done" /\ args' = args /\ written' = written
    BY <1>13 DEF Cleanup
  <2>2. written \in Seq(Output) /\ Len(written) \in Nat /\ Len(outputs) \in Nat
    BY <1>0, LenProperties DEF TypeOK
  <2>3. Len(written) = Len(outputs) /\ \A i \in 1..Len(written) : written[i] = outputs[i]
    BY <2>1, <2>2 DEF Outputs
  <2>4. written = outputs
    BY <1>0, <2>2, <2>3, SeqEqual
  <2>5. PICK q : q = outputs /\ Built(q)
    BY <2>1 DEF Outputs
  <2>6. Built(q)'
    BY <2>1, <2>5, BuiltKept
  <2>7. written' # <<>> /\ q = written'
    BY <2>1, <2>4, <2>5 DEF Outputs
  <2>. QED
    BY <2>1, <2>6, <2>7 DEF Outputs
<1>14. CASE UNCHANGED vars
  <2>1. args' = args /\ outputs' = outputs /\ written' = written /\ pc' = pc /\ idx' = idx
        /\ usedDefault' = usedDefault
    BY <1>14 DEF vars
  <2>2. Given({"f"})' = Given({"f"})
    BY <2>1 DEF Given
  <2>3. pc = "done" => \E q : q = written' /\ Built(q)'
    <3>. HAVE pc = "done"
    <3>1. PICK q : q = written /\ Built(q)
      BY DEF Outputs
    <3>2. Built(q)'
      BY <2>1, <3>1, BuiltKept
    <3>. QED
      BY <2>1, <3>1, <3>2
  <2>. QED
    BY <1>8, <2>1, <2>2, <2>3 DEF Outputs
<1>. QED
  BY <1>1, <1>2, <1>4, <1>5, <1>6, <1>7, <1>9, <1>10, <1>11, <1>12, <1>13, <1>14 DEF Next

\* There are no outputs at first.
LEMMA OutputsInit == Init => Outputs
<1>. SUFFICES ASSUME Init PROVE Outputs
  OBVIOUS
<1>1. pc = "parse" /\ args = <<>> /\ outputs = <<>> /\ Len(args) = 0 /\ Len(outputs) = 0
  BY DEF Init
<1>2. \A opts : Given(opts) = {}
  BY <1>1 DEF Given
<1>3. PICK q : q = outputs
  OBVIOUS
<1>4. Headed(q) /\ Filed(q) /\ FiledOnce(q)
  BY <1>1, <1>2, <1>3 DEF Headed, Filed, FiledOnce
<1>5. \A h : Opens(h) = {} /\ Unnamed(q, h) = {} /\ Surplus(q, h) = 0
  BY <1>1, <1>2, <1>3 DEF Opens, Unnamed, Surplus
<1>6. Counted(q)
  <2>1. Cardinality({}) = 0 /\ 0 = 0 + 0
    BY FS_EmptySet
  <2>. QED
    BY <1>5, <2>1 DEF Counted
<1>. QED
  BY <1>1, <1>3, <1>4, <1>6 DEF Outputs, Built

\* Both parts of the invariant hold throughout.
LEMMA OutputsInvariant == Spec => [](IInv /\ Outputs)
  BY AllOrNothingInit, AllOrNothingStep, OutputsInit, OutputsStep, PTL DEF Spec

\* When the program ends with success, every -o has been written exactly once,
\* in the last format before it, for every command line.
THEOREM EveryFileOnce == Spec => []FilesWritten
<1>1. IInv /\ Outputs => FilesWritten
  <2>. SUFFICES ASSUME IInv, Outputs, pc = "done", NEW k \in Given({"o"})
                PROVE  /\ Cardinality(OfFile(k)) = 1
                       /\ \A i \in OfFile(k) : written[i].format = FormatAt(k)
    BY DEF FilesWritten
  <2>1. PICK q : q = written /\ q # <<>> /\ Built(q)
    BY DEF Outputs
  <2>2. /\ \A j \in Given({"o"}) : Cardinality(OfFile(j)) = 1
        /\ \A j \in Given({"o"}) : \A i \in OfFile(j) : FiledAs(q[i], j)
    BY <2>1, BuiltWritten DEF IInv
  <2>. QED
    BY <2>1, <2>2 DEF FiledAs
<1>. QED
  BY <1>1, OutputsInvariant, PTL

\* What goes to standard output is the formats no file was named for, and the
\* default format when nothing was asked for, for every command line.
THEOREM RestToStdout == Spec => []FormatsWritten
<1>1. IInv /\ Outputs => FormatsWritten
  <2>. SUFFICES ASSUME IInv, Outputs, pc = "done" PROVE FormatsWritten
    BY DEF FormatsWritten
  <2>1. PICK q : q = written /\ q # <<>> /\ Built(q)
    BY DEF Outputs
  <2>2. Counted(q)
    BY <2>1 DEF Built
  <2>. SUFFICES ASSUME NEW f \in Frontends
                PROVE  Cardinality(Unnamed(written, f)) = Cardinality(Opens(f)) +
                          (IF Given({"f", "o"}) = {} /\ f = DefaultFormat THEN 1 ELSE 0)
    <3>1. \A f : Opens(f) = {k \in {j \in Given({"f"}) : Unfiled(j)} : args[k].format = f}
      BY DEF Opens
    <3>. QED
      BY <3>1 DEF FormatsWritten, Unnamed, Unfiled
  <2>3. Surplus(q, f) = IF Given({"f", "o"}) = {} /\ f = DefaultFormat THEN 1 ELSE 0
    BY <2>1 DEF Surplus
  <2>. QED
    BY <2>1, <2>2, <2>3 DEF Counted
<1>. QED
  BY <1>1, OutputsInvariant, PTL

\* -C reaches the file it follows and not the one a later -o starts, for every
\* command line.
THEOREM StateScoped == Spec => []ConfigScoped
<1>1. IInv /\ Outputs => ConfigScoped
  <2>. SUFFICES ASSUME IInv, Outputs, pc = "done", NEW k \in Given({"o"}),
                       NEW i \in 1..Len(written), i \in OfFile(k)
                PROVE  /\ Own(k) # {} => ~written[i].state
                       /\ (Second(k) /\ Own(k) = {}) => written[i].state
    BY DEF ConfigScoped, Own, Second
  <2>1. PICK q : q = written /\ q # <<>> /\ Built(q)
    BY DEF Outputs
  <2>2. \A j \in Given({"o"}) : \A l \in OfFile(j) : FiledAs(q[l], j)
    BY <2>1, BuiltWritten DEF IInv
  <2>. QED
    BY <2>1, <2>2 DEF FiledAs
<1>. QED
  BY <1>1, OutputsInvariant, PTL
=============================================================================
