-------------------------- MODULE TracerouteProofs --------------------------
(* What the parser makes of any output, for any network and any limit,     *)
(* line by line and as a whole.                                            *)
EXTENDS Traceroute, TLAPS

(* A line read after n lines, as one sequence per case.                    *)
LEMMA LineRead ==
    ASSUME TypeOK, NEW reply \in Hop, NextLine(reply)
    PROVE  LET n == Len(output) + 1
           IN /\ n \in Nat \ {0}
              /\ output' \in Seq(Hop) /\ Len(output') = n
              /\ \A i \in 1..n : output'[i] = IF i = n THEN reply ELSE output[i]
              /\ n <= 9 => /\ result'.currentTTL = n
                           /\ result'.hops \in Seq(Hop) /\ Len(result'.hops) = n
                           /\ \A i \in 1..n :
                                 result'.hops[i] = IF i = n THEN reply ELSE result.hops[i]
              /\ n > 9  => /\ result'.currentTTL = 9
                           /\ result'.hops \in Seq(Hop) /\ Len(result'.hops) = 9
                           /\ \A i \in 1..9 :
                                 result'.hops[i] = IF i = 9 /\ reply # Silent THEN reply
                                                   ELSE result.hops[i]
              /\ result' \in [currentTTL : Nat, hops : Seq(Hop)]
<1>. DEFINE n == Len(output) + 1
<1>1. n \in Nat \ {0} /\ Len(output) \in Nat
  BY DEF TypeOK
<1>2. /\ output' \in Seq(Hop) /\ Len(output') = n
      /\ \A i \in 1..n : output'[i] = IF i = n THEN reply ELSE output[i]
  BY DEF TypeOK, NextLine
<1>3. Silent \in Hop
  BY DEF Hop
<1>4. result' = ReadLine(result, n, reply)
  BY DEF NextLine
<1>5. result.hops \in Seq(Hop) /\ result.currentTTL \in Nat
      /\ result = [currentTTL |-> result.currentTTL, hops |-> result.hops]
  BY DEF TypeOK
<1>. HIDE DEF n
<1>6. CASE n <= 9
  <2>. DEFINE grown == Append(result.hops, Silent)
  <2>1. Len(result.hops) = n - 1
    BY <1>1, <1>6 DEF TypeOK, n
  <2>2. /\ grown \in Seq(Hop) /\ Len(grown) = n
        /\ \A i \in 1..n : grown[i] = IF i = n THEN Silent ELSE result.hops[i]
    BY <1>1, <1>3, <1>5, <2>1
  <2>3. Started(result, n, reply) = [currentTTL |-> n, hops |-> grown]
    <3>1. n \in 1..9
      BY <1>1, <1>6
    <3>. QED
      BY <3>1 DEF Started, MatchesTraceID
  <2>. HIDE DEF grown
  <2>4. result' = [currentTTL |-> n,
                   hops |-> IF reply = Silent THEN grown ELSE [grown EXCEPT ![n] = reply]]
    BY <1>4, <2>3 DEF ReadLine
  <2>5. /\ result'.hops \in Seq(Hop) /\ Len(result'.hops) = n
        /\ \A i \in 1..n : result'.hops[i] = IF i = n THEN reply ELSE result.hops[i]
    <3>1. CASE reply = Silent
      BY <1>1, <2>2, <2>4, <3>1
    <3>2. CASE reply # Silent
      <4>1. result'.hops = [grown EXCEPT ![n] = reply]
        BY <2>4, <3>2
      <4>. QED
        BY <1>1, <2>2, <4>1
    <3>. QED
      BY <3>1, <3>2
  <2>6. result'.currentTTL = n /\ result' \in [currentTTL : Nat, hops : Seq(Hop)]
    BY <1>1, <2>4, <2>5
  <2>. QED
    BY <1>1, <1>2, <1>6, <2>5, <2>6 DEF n
<1>7. CASE n > 9
  <2>1. result.currentTTL = 9 /\ Len(result.hops) = 9
    BY <1>1, <1>7 DEF TypeOK, n
  <2>2. Started(result, n, reply) = result
    <3>1. n \notin 1..9
      BY <1>1, <1>7
    <3>. QED
      BY <3>1 DEF Started, MatchesTraceID
  <2>3. result' = [currentTTL |-> 9,
                   hops |-> IF reply = Silent THEN result.hops
                            ELSE [result.hops EXCEPT ![9] = reply]]
    <3>1. CASE reply = Silent
      BY <1>4, <1>5, <2>1, <2>2, <3>1 DEF ReadLine
    <3>2. CASE reply # Silent
      <4>1. result' = [result EXCEPT !.hops[9] = reply]
        BY <1>4, <2>1, <2>2, <3>2 DEF ReadLine
      <4>. QED
        BY <1>5, <2>1, <3>2, <4>1
    <3>. QED
      BY <3>1, <3>2
  <2>4. /\ result'.hops \in Seq(Hop) /\ Len(result'.hops) = 9
        /\ \A i \in 1..9 : result'.hops[i] = IF i = 9 /\ reply # Silent THEN reply
                                             ELSE result.hops[i]
    BY <1>3, <1>5, <2>1, <2>3
  <2>5. result'.currentTTL = 9 /\ result' \in [currentTTL : Nat, hops : Seq(Hop)]
    BY <2>3, <2>4
  <2>. QED
    BY <1>1, <1>2, <1>7, <2>4, <2>5 DEF n
<1>. QED
  BY <1>1, <1>6, <1>7 DEF n

ParserInv == TypeOK /\ FirstHopsOfTheirTTL /\ NinthHopLatest

LEMMA ParserInit == Init => ParserInv
<1>. SUFFICES ASSUME Init PROVE ParserInv
  OBVIOUS
<1>1. Len(output) = 0 /\ output \in Seq(Hop)
  BY DEF Init
<1>2. /\ result.currentTTL = 0 /\ Len(result.hops) = 0 /\ result.hops \in Seq(Hop)
      /\ result \in [currentTTL : Nat, hops : Seq(Hop)]
  BY DEF Init, NoHops
<1>. QED
  BY <1>1, <1>2 DEF ParserInv, TypeOK, FirstHopsOfTheirTTL, NinthHopLatest

LEMMA ParserNext == ParserInv /\ [Next]_vars => ParserInv'
<1>. SUFFICES ASSUME ParserInv, NEW reply \in Hop, NextLine(reply) PROVE ParserInv'
  BY DEF Next, vars, ParserInv, TypeOK, FirstHopsOfTheirTTL, NinthHopLatest
<1>. DEFINE n == Len(output) + 1
<1>. TypeOK /\ n \in Nat \ {0} /\ Len(output) \in Nat
  BY DEF ParserInv, TypeOK
<1>1. TypeOK'
  <2>1. CASE n <= 9
    BY LineRead, <2>1 DEF TypeOK
  <2>2. CASE n > 9
    <3>1. /\ output' \in Seq(Hop) /\ Len(output') = n
          /\ result'.currentTTL = 9 /\ Len(result'.hops) = 9
          /\ result' \in [currentTTL : Nat, hops : Seq(Hop)]
      BY LineRead, <2>2
    <3>. QED
      BY <2>2, <3>1 DEF TypeOK
  <2>. QED
    BY <2>1, <2>2
<1>2. FirstHopsOfTheirTTL'
  <2>1. Len(output') = n /\ \A i \in 1..n : output'[i] = IF i = n THEN reply ELSE output[i]
    BY LineRead
  <2>2. \A i \in 1..n :
          i < 9 => result'.hops[i] = IF i = n THEN reply ELSE result.hops[i]
    <3>1. CASE n <= 9
      BY LineRead, <3>1
    <3>2. CASE n > 9
      <4>1. \A i \in 1..9 :
              result'.hops[i] = IF i = 9 /\ reply # Silent THEN reply ELSE result.hops[i]
        BY LineRead, <3>2
      <4>. QED
        BY <3>2, <4>1
    <3>. QED
      BY <3>1, <3>2
  <2>. QED
    BY <2>1, <2>2 DEF ParserInv, FirstHopsOfTheirTTL
<1>3. NinthHopLatest'
  <2>1. CASE n < 9
    BY LineRead, <2>1 DEF NinthHopLatest
  <2>2. CASE n = 9
    <3>1. Len(output') = 9 /\ output'[9] = reply /\ result'.hops[9] = reply
      <4>1. /\ Len(output') = n /\ output'[n] = reply
            /\ result'.hops[n] = reply
        BY LineRead, <2>2
      <4>. QED
        BY <2>2, <4>1
    <3>. QED
      BY <3>1 DEF NinthHopLatest
  <2>3. CASE n > 9 /\ reply = Silent
    <3>1. /\ Len(output') = n /\ result'.hops[9] = result.hops[9]
          /\ \A i \in 1..n : output'[i] = IF i = n THEN Silent ELSE output[i]
      BY LineRead, <2>3
    <3>. QED
      BY <2>3, <3>1 DEF ParserInv, NinthHopLatest
  <2>4. CASE n > 9 /\ reply # Silent
    <3>1. /\ Len(output') = n /\ result'.hops[9] = reply /\ output'[n] = reply
      BY LineRead, <2>4
    <3>. QED
      BY <2>4, <3>1 DEF NinthHopLatest
  <2>. QED
    BY <2>1, <2>2, <2>3, <2>4
<1>. QED
  BY <1>1, <1>2, <1>3 DEF ParserInv

(* No reply is ever written outside of result.Hops, and there is a hop for *)
(* every TTL of one digit.                                                 *)
THEOREM ParserTypeCorrect == Spec => []TypeOK
<1>. ParserInv => TypeOK
  BY DEF ParserInv
<1>. QED
  BY ParserInit, ParserNext, PTL DEF Spec

(* The first eight hops are what their own TTLs answered, however long the *)
(* output is.                                                              *)
THEOREM FirstHopsRight == Spec => []FirstHopsOfTheirTTL
<1>. ParserInv => FirstHopsOfTheirTTL
  BY DEF ParserInv
<1>. QED
  BY ParserInit, ParserNext, PTL DEF Spec

(* The ninth hop is the latest answer from there on.                       *)
THEOREM NinthHopOverwritten == Spec => []NinthHopLatest
<1>. ParserInv => NinthHopLatest
  BY DEF ParserInv
<1>. QED
  BY ParserInit, ParserNext, PTL DEF Spec
-----------------------------------------------------------------------------
(* The parse of an output as a whole, a fold over its lines.               *)
ReadStep(lines, r, ttl) == ReadLine(r, ttl, lines[ttl])

Reading == INSTANCE FoldTheorems WITH Op <- ReadStep

TTLs(lines) == [ttl \in DOMAIN lines |-> ttl]

ReadAll(lines) == Reading!Fold(lines, NoHops, TTLs(lines))

LEMMA ParsedIsFold == \A lines : Parsed(lines) = ReadAll(lines).hops
  BY DEF Parsed, ReadAll, ReadStep, TTLs, FoldLeftDomain, FoldLeft, MapThenFoldSet, Max,
         Reading!Fold, Reading!FoldLeft, Reading!MapThenFoldSet, Reading!Max

LEMMA TTLSequence ==
    ASSUME NEW lines \in Seq(Hop)
    PROVE  /\ TTLs(lines) \in Seq(Nat) /\ Len(TTLs(lines)) = Len(lines) /\ Len(lines) \in Nat
           /\ \A i \in 1..Len(lines) : TTLs(lines)[i] = i
<1>. Len(lines) \in Nat /\ DOMAIN lines = 1..Len(lines)
  OBVIOUS
<1>. QED
  BY DEF TTLs

LEMMA ReadNothing == ReadAll(<<>>) = NoHops
<1>1. <<>> \in Seq(Hop) /\ Len(<<>>) = 0
  OBVIOUS
<1>2. TTLs(<<>>) \in Seq(Nat) /\ Len(TTLs(<<>>)) = 0
  BY <1>1, TTLSequence
<1>3. PICK f : /\ Reading!IsRun(f, <<>>, NoHops, TTLs(<<>>))
               /\ f[Len(TTLs(<<>>))] = ReadAll(<<>>)
  BY <1>2, Reading!FoldSteps DEF ReadAll
<1>. QED
  BY <1>2, <1>3 DEF Reading!IsRun

(* Line by line is all at once.                                            *)
LEMMA ReadOneMore ==
    ASSUME NEW lines \in Seq(Hop), NEW reply \in Hop
    PROVE  ReadAll(Append(lines, reply)) = ReadLine(ReadAll(lines), Len(lines) + 1, reply)
<1>. DEFINE n == Len(lines)
            more == Append(lines, reply)
<1>1. /\ n \in Nat /\ more \in Seq(Hop) /\ Len(more) = n + 1 /\ more[n + 1] = reply
      /\ \A i \in 1..n : more[i] = lines[i]
  OBVIOUS
<1>. HIDE DEF more
<1>2. /\ TTLs(lines) \in Seq(Nat) /\ Len(TTLs(lines)) = n
      /\ \A i \in 1..n : TTLs(lines)[i] = i
  BY TTLSequence
<1>3. /\ TTLs(more) \in Seq(Nat) /\ Len(TTLs(more)) = n + 1
      /\ \A i \in 1..(n + 1) : TTLs(more)[i] = i
  BY <1>1, TTLSequence
<1>. HIDE DEF n
<1>4. PICK f : Reading!IsRun(f, lines, NoHops, TTLs(lines)) /\ f[n] = ReadAll(lines)
  BY <1>2, Reading!FoldSteps DEF ReadAll
<1>5. PICK h : Reading!IsRun(h, more, NoHops, TTLs(more)) /\ h[n + 1] = ReadAll(more)
  BY <1>3, Reading!FoldSteps DEF ReadAll
<1>6. h[n] = f[n]
  <2>. DEFINE S == {i \in 0..n : h[i] = f[i]}
  <2>1. 0 \in S
    BY <1>1, <1>4, <1>5 DEF Reading!IsRun
  <2>2. ASSUME NEW i \in 1..n, i - 1 \in S
        PROVE  i \in S
    <3>1. i \in 1..(n + 1)
      BY <1>1
    <3>2. f[i] = ReadLine(f[i-1], i, lines[i])
      BY <1>2, <1>4 DEF Reading!IsRun, ReadStep
    <3>3. h[i] = ReadLine(h[i-1], i, more[i])
      BY <1>3, <1>5, <3>1 DEF Reading!IsRun, ReadStep
    <3>. QED
      BY <1>1, <2>2, <3>2, <3>3
  <2>. HIDE DEF S
  <2>3. 0..n \subseteq S
    BY <1>1, <2>1, <2>2, Reading!UpToInduction
  <2>. QED
    BY <1>1, <2>3 DEF S
<1>7. h[n + 1] = ReadLine(h[n], n + 1, reply)
  <2>1. n + 1 \in 1..(n + 1) /\ (n + 1) - 1 = n
    BY <1>1
  <2>2. h[n + 1] = ReadStep(more, h[(n + 1) - 1], TTLs(more)[n + 1])
    BY <1>3, <1>5, <2>1 DEF Reading!IsRun
  <2>. QED
    BY <1>1, <1>3, <2>1, <2>2 DEF ReadStep
<1>. QED
  BY <1>4, <1>5, <1>6, <1>7 DEF n, more

(* What ParseTracerouteOutput returns for a whole output, which is what    *)
(* the inputs of the topology inference are made with, is what the lines   *)
(* read so far have come to: so its hops are those of the three theorems.  *)
THEOREM ParsedLineByLine == Spec => [](result.hops = Parsed(output))
<1>1. Init => result = ReadAll(output)
  BY ReadNothing DEF Init
<1>2. TypeOK /\ result = ReadAll(output) /\ [Next]_vars => (result = ReadAll(output))'
  BY ReadOneMore DEF TypeOK, Next, NextLine, vars
<1>3. result = ReadAll(output) => result.hops = Parsed(output)
  BY ParsedIsFold
<1>. QED
  BY <1>1, <1>2, <1>3, ParserTypeCorrect, PTL DEF Spec
=============================================================================
