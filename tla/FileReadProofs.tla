--------------------------- MODULE FileReadProofs ----------------------------
(***************************************************************************)
(* What is proved of FileRead for files of any length, any changes of them *)
(* and any number of streams that break: TypeOK, that success means the    *)
(* bytes that were hashed, and that the transfer of an untouched file      *)
(* repeats and skips no byte and fails on nothing but a missing hash.      *)
(***************************************************************************)
EXTENDS FileRead, SequenceTheorems, TLAPS

\* There is a number for the next new byte as long as there may be a change.
FreshLeft == fresh <= MaxSize + changes + 1

\* What was counted is what dst has.
CountIsLength == m = Len(dst)

\* Success is a verdict on all the bytes.
OkIsVerdict == pc = "ok" => m >= srcFileSize /\ dst = srcMD5

\* The file as it is, when nothing has changed it: dst has its first m bytes
\* and a running tail all of the others.
Untouched ==
  /\ file \in Seq(Bytes) /\ m \in 0..Len(file)
  /\ dst = SubSeq(file, 1, m)
  /\ tail = IF pc = "copy" THEN SubSeq(file, m + 1, Len(file)) ELSE <<>>
  /\ pc \in {"stat", "md5"} => srcMD5 = NoHash
  /\ srcMD5 \in {NoHash, file}
  /\ pc \notin {"stat", "err", "hung"} => srcFileSize = Len(file)
  /\ pc = "err" => srcMD5 = NoHash

ReadInv ==
  /\ TypeOK /\ FreshLeft /\ CountIsLength /\ OkIsVerdict
  /\ changes = 0 => Untouched

-----------------------------------------------------------------------------
(* Sequences *)

\* The rest of a sequence, of which some was taken off the front.
LEMMA RestOfRest ==
  ASSUME NEW S, NEW f \in Seq(S), NEW k \in 0..Len(f),
         NEW o \in 1..(Len(f) - k)
  PROVE  LET rest == SubSeq(f, k + 1, Len(f))
         IN /\ Len(rest) = Len(f) - k
            /\ SubSeq(f, 1, k) \o SubSeq(rest, 1, o) = SubSeq(f, 1, k + o)
            /\ SubSeq(rest, o + 1, Len(rest)) = SubSeq(f, k + o + 1, Len(f))
<1> DEFINE rest == SubSeq(f, k + 1, Len(f))
<1>1. Len(f) \in Nat /\ k + 1 \in 1..Len(f) /\ Len(f) \in 1..Len(f)
  BY LenProperties
<1>2. \A i \in (k + 1)..Len(f) : f[i] \in S
  BY <1>1, ElementOfSeq
<1>3. Len(rest) = Len(f) - k /\ rest \in Seq(S)
  BY <1>1, <1>2, SubSeqProperties
<1>4. SubSeq(rest, 1, o) = SubSeq(f, k + 1, k + o)
  <2>1. 1 \in 1..(Len(f) - (k + 1) + 1) /\ o \in 1..(Len(f) - (k + 1) + 1)
    BY <1>1
  <2>2. SubSeq(rest, 1, o) = SubSeq(f, (k + 1) + 1 - 1, (k + 1) + o - 1)
    BY <2>1, <1>1, SubSeqOfSubSeq
  <2> QED
    BY <2>2, <1>1
<1>5. SubSeq(f, 1, k) \o SubSeq(f, k + 1, k + o) = SubSeq(f, 1, k + o)
  <2>1. 1 \in 1..(Len(f) + 1) /\ k \in (1 - 1)..Len(f) /\ k + o \in k..Len(f)
    BY <1>1
  <2> QED
    BY <2>1, ConcatAdjacentSubSeq
<1>6. SubSeq(rest, o + 1, Len(rest)) = SubSeq(f, k + o + 1, Len(f))
  <2>1. CASE o = Len(f) - k
    <3>1. SubSeq(rest, o + 1, Len(rest)) = <<>>
      BY <2>1, <1>1, <1>3, SubSeqEmpty
    <3>2. SubSeq(f, k + o + 1, Len(f)) = <<>>
      BY <2>1, <1>1, SubSeqEmpty
    <3> QED
      BY <3>1, <3>2
  <2>2. CASE o < Len(f) - k
    <3>1. /\ o + 1 \in 1..(Len(f) - (k + 1) + 1)
          /\ Len(f) - k \in 1..(Len(f) - (k + 1) + 1)
      BY <2>2, <1>1
    <3>2. SubSeq(rest, o + 1, Len(f) - k)
            = SubSeq(f, (k + 1) + (o + 1) - 1, (k + 1) + (Len(f) - k) - 1)
      BY <3>1, <1>1, SubSeqOfSubSeq
    <3>3. (k + 1) + (o + 1) - 1 = k + o + 1 /\ (k + 1) + (Len(f) - k) - 1 = Len(f)
      BY <1>1
    <3> QED
      BY <3>2, <3>3, <1>3
  <2> QED
    BY <2>1, <2>2, <1>1
<1> QED
  BY <1>3, <1>4, <1>5, <1>6

\* A part of a sequence of bytes, from wherever to its end or before it.
LEMMA PartOfBytes ==
  ASSUME NEW S, NEW f \in Seq(S), NEW i \in Nat \ {0}, NEW j \in 0..Len(f)
  PROVE  /\ SubSeq(f, i, j) \in Seq(S)
         /\ Len(SubSeq(f, i, j)) = IF i <= j THEN j - i + 1 ELSE 0
<1>1. Len(f) \in Nat
  BY LenProperties
<1>2. \A k \in i..j : f[k] \in S
  BY <1>1, ElementOfSeq
<1> QED
  BY <1>1, <1>2, SubSeqProperties

-----------------------------------------------------------------------------
(* The invariant *)

LEMMA InvInit == Init => ReadInv
<1> SUFFICES ASSUME Init PROVE ReadInv
  OBVIOUS
<1> USE FileReadAssumption DEF Init
<1>1. PICK size \in 0..MaxSize : file = [i \in 1..size |-> i] /\ fresh = size + 1
  OBVIOUS
<1>2. file \in Seq(Bytes) /\ Len(file) = size
  BY <1>1 DEF Bytes
<1>3. <<>> \in Seq(Bytes) /\ Len(<<>>) = 0
  BY EmptySeq
<1>4. TypeOK
  BY <1>1, <1>2, <1>3 DEF TypeOK, Steps, Bytes
<1>5. SubSeq(file, 1, 0) = <<>>
  BY SubSeqEmpty
<1>6. Untouched
  BY <1>2, <1>5 DEF Untouched
<1> QED
  BY <1>1, <1>3, <1>4, <1>6 DEF ReadInv, FreshLeft, CountIsLength, OkIsVerdict

\* A change of the file leaves dst as it is.
LEMMA ChangeStep == ReadInv /\ (Grow \/ Cut \/ Remove) => ReadInv'
<1> SUFFICES ASSUME ReadInv, Grow \/ Cut \/ Remove PROVE ReadInv'
  OBVIOUS
<1> USE FileReadAssumption
<1>0. /\ changes' = changes + 1 /\ changes \in Nat /\ changes < MaxChanges
      /\ UNCHANGED <<local, breaks>>
  BY DEF Grow, Cut, Remove, ReadInv, TypeOK
<1>1. FreshLeft' /\ file' \in Seq(Bytes) \cup {Gone} /\ tail' \in Seq(Bytes)
      /\ fresh' \in Bytes \cup {MaxSize + MaxChanges + 1}
  <2>1. CASE Grow
    <3>1. file \in Seq(Bytes) /\ fresh \in Bytes
      BY <2>1, <1>0 DEF Grow, ReadInv, TypeOK, FreshLeft, Bytes
    <3>2. Append(file, fresh) \in Seq(Bytes) /\ Append(tail, fresh) \in Seq(Bytes)
      BY <3>1, AppendProperties DEF ReadInv, TypeOK
    <3>3. file' \in Seq(Bytes) /\ tail' \in Seq(Bytes)
      BY <2>1, <3>2 DEF Grow, ReadInv, TypeOK
    <3>4. FreshLeft' /\ fresh' \in Bytes \cup {MaxSize + MaxChanges + 1}
      BY <2>1, <3>1, <1>0 DEF Grow, ReadInv, FreshLeft, Bytes
    <3> QED
      BY <3>3, <3>4
  <2>2. CASE Cut
    <3>1. file \in Seq(Bytes) /\ file # <<>> /\ tail \in Seq(Bytes)
      BY <2>2 DEF Cut, ReadInv, TypeOK
    <3>2. Len(file) - 1 \in 0..Len(file)
      BY <3>1, EmptySeq
    <3>3. SubSeq(file, 1, Len(file) - 1) \in Seq(Bytes)
      BY <3>1, <3>2, PartOfBytes
    <3>4. tail # <<>> => SubSeq(tail, 1, Len(tail) - 1) \in Seq(Bytes)
      <4>1. tail # <<>> => Len(tail) - 1 \in 0..Len(tail)
        BY <3>1, EmptySeq
      <4> QED
        BY <3>1, <4>1, PartOfBytes
    <3>5. file' \in Seq(Bytes) /\ tail' \in Seq(Bytes)
      BY <2>2, <3>1, <3>3, <3>4 DEF Cut
    <3> QED
      BY <2>2, <3>5, <1>0 DEF Cut, ReadInv, TypeOK, FreshLeft, Bytes
  <2>3. CASE Remove
    BY <2>3, <1>0 DEF Remove, ReadInv, TypeOK, FreshLeft, Bytes
  <2> QED
    BY <2>1, <2>2, <2>3
<1>2. TypeOK'
  BY <1>0, <1>1 DEF ReadInv, TypeOK, local, Steps
<1>3. CountIsLength' /\ OkIsVerdict'
  BY <1>0 DEF ReadInv, CountIsLength, OkIsVerdict, local
<1>4. changes' # 0
  BY <1>0
<1> QED
  BY <1>1, <1>2, <1>3, <1>4 DEF ReadInv

\* Some bytes are forwarded: from tail to dst.
LEMMA ForwardStep == ReadInv /\ Forward => ReadInv'
<1> SUFFICES ASSUME ReadInv, Forward PROVE ReadInv'
  OBVIOUS
<1> USE FileReadAssumption
<1>1. PICK o \in 1..Len(tail) :
        /\ dst' = dst \o SubSeq(tail, 1, o)
        /\ tail' = SubSeq(tail, o + 1, Len(tail)) /\ m' = m + o
  BY DEF Forward
<1>2. tail \in Seq(Bytes) /\ dst \in Seq(Bytes) /\ m \in Nat /\ Len(tail) \in Nat
  BY LenProperties DEF ReadInv, TypeOK
<1>3. SubSeq(tail, 1, o) \in Seq(Bytes) /\ Len(SubSeq(tail, 1, o)) = o
  BY <1>2, PartOfBytes
<1>4. tail' \in Seq(Bytes)
  BY <1>1, <1>2, PartOfBytes
<1>5. dst' \in Seq(Bytes) /\ Len(dst') = Len(dst) + o
  BY <1>1, <1>2, <1>3, ConcatProperties
<1>6. /\ pc = "copy"
      /\ UNCHANGED <<file, pc, srcFileSize, srcMD5, changes, breaks, fresh>>
  BY DEF Forward
<1>7. TypeOK'
  BY <1>1, <1>2, <1>4, <1>5, <1>6 DEF ReadInv, TypeOK
<1>8. CountIsLength' /\ OkIsVerdict' /\ FreshLeft'
  BY <1>1, <1>2, <1>5, <1>6 DEF ReadInv, CountIsLength, OkIsVerdict, FreshLeft
<1>9. ASSUME changes' = 0 PROVE Untouched'
  <2>1. Untouched
    BY <1>6, <1>9 DEF ReadInv
  <2>2. /\ file \in Seq(Bytes) /\ m \in 0..Len(file) /\ Len(file) \in Nat
        /\ tail = SubSeq(file, m + 1, Len(file))
    BY <2>1, <1>6, LenProperties DEF Untouched
  <2>3. Len(tail) = Len(file) - m
    <3>1. m + 1 \in Nat \ {0} /\ Len(file) \in 0..Len(file)
      BY <2>2
    <3>2. Len(tail) = IF m + 1 <= Len(file) THEN Len(file) - (m + 1) + 1 ELSE 0
      BY <2>2, <3>1, PartOfBytes
    <3> QED
      BY <2>2, <3>2
  <2>4. o \in 1..(Len(file) - m)
    BY <2>3
  <2>5. /\ SubSeq(file, 1, m) \o SubSeq(tail, 1, o) = SubSeq(file, 1, m + o)
        /\ SubSeq(tail, o + 1, Len(tail)) = SubSeq(file, m + o + 1, Len(file))
    BY <2>2, <2>4, RestOfRest
  <2>6. m' \in 0..Len(file)
    BY <1>1, <2>2, <2>4
  <2> QED
    BY <1>1, <1>6, <2>1, <2>5, <2>6 DEF Untouched
<1> QED
  BY <1>7, <1>8, <1>9 DEF ReadInv

\* The steps that ask for the size, the hash or the bytes.
LEMMA AskStep == ReadInv /\ (Stat \/ MD5Sum \/ Exec \/ EndOfStream) => ReadInv'
<1> SUFFICES ASSUME ReadInv, Stat \/ MD5Sum \/ Exec \/ EndOfStream PROVE ReadInv'
  OBVIOUS
<1> USE FileReadAssumption DEF ReadInv
<1>1. UNCHANGED <<file, m, dst, changes, fresh>> /\ pc' # "ok"
  BY DEF Stat, MD5Sum, Exec, EndOfStream
<1>2. FreshLeft' /\ CountIsLength' /\ OkIsVerdict'
  BY <1>1 DEF FreshLeft, CountIsLength, OkIsVerdict
<1>3. CASE Stat
  <2>1. file # Gone => Len(file) \in Nat
    BY LenProperties DEF TypeOK
  <2>2. TypeOK'
    BY <1>3, <2>1 DEF Stat, TypeOK, Steps
  <2>3. changes = 0 => Untouched'
    BY <1>3 DEF Stat, Untouched, Gone, TypeOK
  <2> QED
    BY <1>1, <1>2, <2>2, <2>3
<1>4. CASE MD5Sum
  <2>1. TypeOK'
    BY <1>4 DEF MD5Sum, TypeOK, Steps
  <2>2. changes = 0 => Untouched'
    BY <1>4 DEF MD5Sum, Untouched, Gone, TypeOK
  <2> QED
    BY <1>1, <1>2, <2>1, <2>2
<1>5. CASE Exec
  <2>1. file # Gone => SubSeq(file, m + 1, Len(file)) \in Seq(Bytes)
    <3>1. file # Gone => file \in Seq(Bytes) /\ Len(file) \in 0..Len(file)
      BY LenProperties DEF TypeOK
    <3>2. m + 1 \in Nat \ {0}
      BY DEF TypeOK
    <3> QED
      BY <3>1, <3>2, PartOfBytes
  <2>2. TypeOK'
    <3>1. tail' \in Seq(Bytes)
      BY <1>5, <2>1 DEF Exec, From, TypeOK
    <3>2. pc' \in Steps /\ breaks' \in 0..MaxBreaks
      BY <1>5 DEF Exec, TypeOK, Steps
    <3> QED
      BY <1>5, <3>1, <3>2 DEF Exec, TypeOK
  <2>3. file \in Seq(Bytes) => file # Gone
    <3>1. SUFFICES ASSUME Gone \in Seq(Bytes) PROVE FALSE
      OBVIOUS
    <3>2. Len(Gone) = 1 /\ Gone[1] = 0
      BY DEF Gone
    <3>3. Gone[1] \in Bytes
      BY <3>1, <3>2, ElementOfSeq
    <3> QED
      BY <3>2, <3>3 DEF Bytes
  <2>4. changes = 0 => Untouched'
    BY <1>5, <2>3 DEF Exec, From, Untouched, TypeOK
  <2> QED
    BY <1>1, <1>2, <2>2, <2>4
<1>6. CASE EndOfStream
  <2>1. TypeOK'
    BY <1>6, EmptySeq DEF EndOfStream, TypeOK, Steps
  <2>2. changes = 0 => Untouched'
    BY <1>6 DEF EndOfStream, Untouched
  <2> QED
    BY <1>1, <1>2, <2>1, <2>2
<1> QED
  BY <1>3, <1>4, <1>5, <1>6

\* The verdict: all the bytes of an untouched file are the file.
LEMMA CheckStep == ReadInv /\ Check => ReadInv'
<1> SUFFICES ASSUME ReadInv, Check PROVE ReadInv'
  OBVIOUS
<1> USE FileReadAssumption DEF ReadInv, Check
<1>1. TypeOK'
  BY DEF Verdict, TypeOK, Steps
<1>2. FreshLeft' /\ CountIsLength'
  BY DEF FreshLeft, CountIsLength
<1>3. OkIsVerdict'
  BY DEF Verdict, OkIsVerdict, TypeOK
<1>4. ASSUME changes' = 0 PROVE Untouched'
  <2>1. Untouched /\ srcFileSize = Len(file) /\ Len(file) \in Nat
    BY <1>4, LenProperties DEF Untouched
  <2>2. m >= srcFileSize => dst = file
    <3>1. m >= srcFileSize => m = Len(file)
      BY <2>1 DEF Untouched
    <3> QED
      BY <2>1, <3>1, SubSeqFull DEF Untouched
  <2>3. pc' = "err" => srcMD5 = NoHash
    BY <2>1, <2>2 DEF Verdict, Untouched, TypeOK
  <2>4. pc' \in {"exec", "ok", "err"}
    BY DEF Verdict
  <2> QED
    BY <2>1, <2>3, <2>4 DEF Untouched
<1> QED
  BY <1>1, <1>2, <1>3, <1>4

LEMMA InvStep == ReadInv /\ [Next]_vars => ReadInv'
<1> SUFFICES ASSUME ReadInv, [Next]_vars PROVE ReadInv'
  OBVIOUS
<1>1. CASE UNCHANGED vars
  BY <1>1 DEF vars, ReadInv, TypeOK, FreshLeft, CountIsLength, OkIsVerdict, Untouched
<1> QED
  BY <1>1, ChangeStep, ForwardStep, AskStep, CheckStep DEF Next, Transfer

LEMMA Invariant == Spec => []ReadInv
<1>1. Init => ReadInv
  BY InvInit
<1>2. ReadInv /\ [Next]_vars => ReadInv'
  BY InvStep
<1> QED
  BY <1>1, <1>2, PTL DEF Spec

-----------------------------------------------------------------------------
(* The theorems *)

\* Every variable stays in its range: only bytes of the file are ever sent.
THEOREM TypeCorrect == Spec => []TypeOK
<1>1. ReadInv => TypeOK
  BY DEF ReadInv
<1> QED
  BY <1>1, Invariant, PTL

\* FileRead reports success only of the bytes it hashed, all of them, however
\* the file grew, was cut or removed and the streams broke.
THEOREM OkIsHashed == Spec => []OkMeansHashed
<1>1. ReadInv => OkMeansHashed
  BY DEF ReadInv, OkIsVerdict, CountIsLength, OkMeansHashed
<1> QED
  BY <1>1, Invariant, PTL

\* A resumed transfer of a file nobody touches repeats no byte and skips none.
THEOREM ReadsPrefix == Spec => []PrefixOfFile
<1>1. ReadInv => PrefixOfFile
  BY DEF ReadInv, Untouched, PrefixOfFile
<1> QED
  BY <1>1, Invariant, PTL

\* Once it has the hash of a file nobody touches FileRead does not fail.
THEOREM UntouchedIsCopied == Spec => []UntouchedSucceeds
<1>1. ReadInv => UntouchedSucceeds
  BY FileReadAssumption DEF ReadInv, Untouched, TypeOK, UntouchedSucceeds
<1> QED
  BY <1>1, Invariant, PTL
=============================================================================
