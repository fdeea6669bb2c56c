--------------------------- MODULE LogScannerProofs ---------------------------
(***************************************************************************)
(* What the brace scanners miss, at any depth and for any number of braces *)
(* on a line: a loop or a handler whose line the pattern did not match, a  *)
(* loop after a block opened on its line has closed, a handler after the   *)
(* block of a match inside it has closed, and nothing else.                *)
(***************************************************************************)
EXTENDS LogScanner, SequenceTheorems, WellFoundedInduction, TLAPS

(* A prefix of a sequence.                                                 *)
LEMMA PrefixProperties ==
    ASSUME NEW S, NEW seq \in Seq(S), NEW n \in 0..Len(seq)
    PROVE  /\ SubSeq(seq, 1, n) \in Seq(S)
           /\ Len(SubSeq(seq, 1, n)) = n
           /\ \A i \in 1..n : SubSeq(seq, 1, n)[i] = seq[i]
<1>1. Len(seq) \in Nat
    BY LenProperties
<1>2. \A i \in 1..n : i \in 1..Len(seq)
    BY <1>1
<1>3. \A i \in 1..n : seq[i] \in S
    BY <1>2, ElementOfSeq
<1>4. n \in Int /\ 1 \in Int
    BY <1>1
<1>5. /\ SubSeq(seq, 1, n) \in Seq(S)
      /\ Len(SubSeq(seq, 1, n)) = IF 1 <= n THEN n - 1 + 1 ELSE 0
      /\ \A i \in 1..n - 1 + 1 : SubSeq(seq, 1, n)[i] = seq[1 + i - 1]
    BY <1>3, <1>4, SubSeqProperties
<1>6. n - 1 + 1 = n /\ (~(1 <= n) => n = 0) /\ \A i \in 1..n : 1 + i - 1 = i
    BY <1>1
<1> QED  BY <1>5, <1>6

(* A set of numbers that are not above a bound has a greatest one.         *)
LEMMA GreatestExists ==
    ASSUME NEW n \in Nat, NEW S, S \subseteq 0..n, S # {}
    PROVE  \E m \in S : \A k \in S : k <= m
<1> DEFINE T == {n - k : k \in S}
<1>1. /\ \A k \in S : k \in Nat /\ n - k \in Nat
      /\ T \subseteq Nat /\ T # {}
  <2>1. \A k \in S : k \in 0..n
      OBVIOUS
  <2>2. \A k \in S : k \in Nat /\ n - k \in Nat
      BY <2>1
  <2> QED  BY <2>2
<1>2. \E x \in T : \A y \in T : ~(<<y, x>> \in OpToRel(<, Nat))
    BY <1>1, WFMin, NatLessThanWellFounded
<1>3. PICK x \in T : \A y \in T : ~(<<y, x>> \in OpToRel(<, Nat))
    BY <1>2
<1>4. \A y \in T : ~(y < x)
    BY <1>1, <1>3 DEF OpToRel
<1>5. PICK m \in S : x = n - m
    BY <1>3
<1>6. \A k \in S : k <= m
  <2> SUFFICES ASSUME NEW k \in S  PROVE k <= m
      OBVIOUS
  <2>1. n - k \in T /\ ~(n - k < n - m)
      BY <1>4, <1>5
  <2>2. k \in Nat /\ m \in Nat
      BY <1>1
  <2> QED  BY <2>1, <2>2
<1> QED  BY <1>6

-----------------------------------------------------------------------------
(* The blocks after a line: those that are left below it, then those it    *)
(* opens.                                                                  *)

LEMMA LineTyped ==
    ASSUME NEW l \in Lines
    PROVE  /\ l.closes \in Nat /\ Len(l.opens) \in Nat
           /\ \A k \in 1..Len(l.opens) : l.opens[k] \in Kinds
           /\ l.loop \in BOOLEAN /\ l.err \in BOOLEAN /\ l.head \in BOOLEAN
           /\ l.head => l.closes = 0 /\ l.opens = <<>>
<1>1. /\ l \in [closes: 0..MaxBraces, opens: Opens, loop: BOOLEAN,
                err: BOOLEAN, head: BOOLEAN]
      /\ l.head => l.closes = 0 /\ l.opens = <<>>
    BY DEF Lines
<1>2. PICK n \in 0..MaxBraces : l.opens \in [1..n -> Kinds]
    BY <1>1 DEF Opens
<1>3. n \in Nat /\ l.opens \in Seq(Kinds) /\ Len(l.opens) = n
    BY <1>2, BoundsAssumption
<1> QED  BY <1>1, <1>2, <1>3, BoundsAssumption

LEMMA BlockTyped ==
    ASSUME blocks \in Seq(BlockType), Len(blocks) <= MaxDepth,
           pending \in BOOLEAN, NEW l \in Lines, LineFits(l)
    PROVE  LET left == Len(blocks) - l.closes
               depth == left + Len(l.opens)
           IN  /\ left \in 0..Len(blocks) /\ depth \in Depths /\ left <= depth
               /\ \A i \in 1..left : Remains(l, i) \in BlockType
               /\ \A k \in 1..Len(l.opens) : Opened(l, k) \in BlockType
<1> DEFINE left == Len(blocks) - l.closes
           depth == left + Len(l.opens)
<1>1. /\ l.closes \in Nat /\ Len(l.opens) \in Nat /\ l.loop \in BOOLEAN
      /\ l.err \in BOOLEAN /\ \A k \in 1..Len(l.opens) : l.opens[k] \in Kinds
    BY LineTyped
<1>2. /\ Len(blocks) \in Nat
      /\ \A i \in 1..Len(blocks) : blocks[i] \in BlockType
    BY LenProperties, ElementOfSeq
<1>3. l.closes <= Len(blocks) /\ depth <= MaxDepth
    BY DEF LineFits
<1>4. left \in 0..Len(blocks) /\ depth \in Depths /\ left <= depth
    BY <1>1, <1>2, <1>3, BoundsAssumption DEF Depths
<1>5. ASSUME NEW i \in 1..left  PROVE Remains(l, i) \in BlockType
  <2>1. i \in 1..Len(blocks)
      BY <1>2, <1>4
  <2>2. blocks[i] \in BlockType
      BY <1>2, <2>1
  <2> QED  BY <2>2 DEF Remains, BlockType
<1>6. ASSUME NEW k \in 1..Len(l.opens)  PROVE Opened(l, k) \in BlockType
  <2>1. left + k \in Depths
      BY <1>1, <1>4, BoundsAssumption DEF Depths
  <2>2. l.opens[k] \in Kinds
      BY <1>1
  <2>3. LoopSeen(l, k) \in BOOLEAN
      BY <1>1 DEF LoopSeen, Continues
  <2> DEFINE seen == CASE l.opens[k] = "loop" -> LoopSeen(l, k)
                       [] l.opens[k] = "handler" -> l.err
                       [] OTHER -> FALSE
             upto == IF Continues(l, k) THEN left + k ELSE left + Len(l.opens)
  <2>4. seen \in BOOLEAN
      BY <1>1, <2>2, <2>3 DEF Kinds
  <2>5. upto \in Depths
      BY <1>4, <2>1
  <2>6. Opened(l, k) = [kind |-> l.opens[k], seen |-> seen, upto |-> upto,
                        marked |-> FALSE]
      BY DEF Opened
  <2> HIDE DEF seen, upto
  <2> QED  BY <2>2, <2>4, <2>5, <2>6 DEF BlockType
<1> QED  BY <1>4, <1>5, <1>6

LEMMA AfterProperties ==
    ASSUME blocks \in Seq(BlockType), Len(blocks) <= MaxDepth,
           pending \in BOOLEAN, NEW l \in Lines, LineFits(l)
    PROVE  LET left == Len(blocks) - l.closes
               depth == left + Len(l.opens)
               after == BlocksAfter(l)
           IN  /\ left \in 0..Len(blocks) /\ depth \in Depths /\ left <= depth
               /\ after \in Seq(BlockType) /\ Len(after) = depth
               /\ \A i \in 1..left :
                     /\ after[i].kind = Remains(l, i).kind
                     /\ after[i].seen = Remains(l, i).seen
                     /\ after[i].upto = Remains(l, i).upto
                     /\ Remains(l, i).marked => after[i].marked
               /\ \A i \in left + 1 .. depth :
                     /\ after[i].kind = Opened(l, i - left).kind
                     /\ after[i].seen = Opened(l, i - left).seen
                     /\ after[i].upto = Opened(l, i - left).upto
               /\ l.err /\ depth > 0 => after[depth].marked
<1> DEFINE left == Len(blocks) - l.closes
           depth == left + Len(l.opens)
           block(i) == IF i <= left THEN Remains(l, i) ELSE Opened(l, i - left)
           after == BlocksAfter(l)
<1>1. /\ left \in 0..Len(blocks) /\ depth \in Depths /\ left <= depth
      /\ \A i \in 1..left : Remains(l, i) \in BlockType
      /\ \A k \in 1..Len(l.opens) : Opened(l, k) \in BlockType
    BY BlockTyped
<1>2. l.err \in BOOLEAN /\ Len(l.opens) \in Nat /\ Len(blocks) \in Nat
    BY LineTyped, LenProperties
<1>3. left \in Nat /\ depth \in Nat
    BY <1>1, <1>2, BoundsAssumption DEF Depths
<1>4. after = [i \in 1..depth |->
                  [block(i) EXCEPT !.marked = @ \/ (l.err /\ i = depth)]]
    BY DEF BlocksAfter
<1>5. \A i \in 1..depth : block(i) \in BlockType
  <2> TAKE i \in 1..depth
  <2>1. CASE i <= left
    <3>1. i \in 1..left
        BY <1>3, <2>1
    <3> QED  BY <1>1, <2>1, <3>1
  <2>2. CASE ~(i <= left)
    <3>1. i - left \in 1..Len(l.opens)
        BY <1>2, <1>3, <2>2
    <3> QED  BY <1>1, <2>2, <3>1
  <2> QED  BY <2>1, <2>2
<1>6. \A i \in 1..left : i \in 1..depth /\ block(i) = Remains(l, i)
    BY <1>1, <1>3
<1>7. \A i \in left + 1 .. depth :
          i \in 1..depth /\ block(i) = Opened(l, i - left)
    BY <1>1, <1>3
<1> HIDE DEF block, left, depth, after
<1>8. \A i \in 1..depth :
         /\ after[i] \in BlockType
         /\ after[i].kind = block(i).kind
         /\ after[i].seen = block(i).seen
         /\ after[i].upto = block(i).upto
         /\ block(i).marked => after[i].marked
         /\ l.err /\ i = depth => after[i].marked
  <2> TAKE i \in 1..depth
  <2>1. after[i] = [block(i) EXCEPT !.marked = @ \/ (l.err /\ i = depth)]
      BY <1>4
  <2>2. block(i) \in BlockType
      BY <1>5
  <2> QED  BY <1>2, <2>1, <2>2 DEF BlockType
<1>9. after \in Seq(BlockType) /\ Len(after) = depth
  <2>1. after \in [1..depth -> BlockType]
      BY <1>4, <1>8
  <2> QED  BY <1>3, <2>1
<1>10. depth > 0 => depth \in 1..depth
    BY <1>3
<1>11. /\ \A i \in 1..left :
                     /\ after[i].kind = Remains(l, i).kind
                     /\ after[i].seen = Remains(l, i).seen
                     /\ after[i].upto = Remains(l, i).upto
                     /\ Remains(l, i).marked => after[i].marked
       /\ \A i \in left + 1 .. depth :
                     /\ after[i].kind = Opened(l, i - left).kind
                     /\ after[i].seen = Opened(l, i - left).seen
                     /\ after[i].upto = Opened(l, i - left).upto
    BY <1>6, <1>7, <1>8
<1>12. l.err /\ depth > 0 => after[depth].marked
    BY <1>8, <1>10
<1> QED  BY <1>1, <1>9, <1>11, <1>12 DEF left, depth, after

-----------------------------------------------------------------------------
(* Types. The braces a scanner counts are the blocks that are open.        *)
TypeInv == STypeOK /\ (lang # "python" => brace_depth = Len(blocks))

LEMMA ScanLineTyped ==
    ASSUME TypeInv, lang # "python", NEW l \in Lines, NEW calls, NEW level,
           \A c \in calls : level[c] \in Levels, ScanLine(l, calls, level)
    PROVE  TypeInv'
<1> USE DEF TypeInv, STypeOK
<1>1. /\ l.closes \in Nat /\ Len(l.opens) \in Nat /\ l.err \in BOOLEAN
      /\ l.loop \in BOOLEAN /\ l.head \in BOOLEAN
    BY LineTyped
<1>2. LineFits(l)
    BY DEF ScanLine
<1>3. /\ BlocksAfter(l) \in Seq(BlockType)
      /\ Len(BlocksAfter(l)) = Len(blocks) - l.closes + Len(l.opens)
      /\ Len(blocks) - l.closes + Len(l.opens) \in Depths
    BY <1>2, AfterProperties
<1>4. Len(blocks) \in Nat
    BY LenProperties
<1>5. DepthAfter(l) = Len(blocks) - l.closes + Len(l.opens)
    BY <1>1, <1>4 DEF DepthAfter
<1>6. lang' = lang /\ blocks' = BlocksAfter(l) /\ brace_depth' = DepthAfter(l)
    BY DEF ScanLine
<1>7. loop_start_depths' \subseteq Depths /\ error_handler_brace_depth' \in Depths
    BY <1>1, <1>3, <1>5 DEF ScanLine, LoopsAfter, StartAfter
<1>8. in_error_handler' \in BOOLEAN /\ pending' \in BOOLEAN
    BY <1>1 DEF ScanLine, InHandlerAfter
<1>9. last' \in [level: Levels, in_loop: BOOLEAN, in_error_handler: BOOLEAN]
  <2>1. CASE last' = NoLog
      BY <2>1 DEF NoLog, Levels
  <2>2. CASE last' # NoLog
    <3>1. PICK call \in calls :
             last' = [level |-> level[call],
                      in_loop |-> loop_start_depths' # {},
                      in_error_handler |-> in_error_handler']
        BY <2>2 DEF ScanLine
    <3> QED  BY <1>8, <3>1
  <2> QED  BY <2>1, <2>2
<1>10. indent_stack' = indent_stack
    BY DEF ScanLine
<1>11. Len(blocks') <= MaxDepth
    BY <1>3, <1>6, BoundsAssumption DEF Depths
<1> QED  BY <1>3, <1>5, <1>6, <1>7, <1>8, <1>9, <1>10, <1>11

(* The Python scanner's stack holds scopes, however many a line pops.      *)
LEMMA PythonTyped ==
    ASSUME TypeInv, PythonScanFile
    PROVE  TypeInv'
<1> USE DEF TypeInv, STypeOK, PythonScanFile
<1> DEFINE Scopes == Seq([scope: {"loop", "except"}, indent: Depths])
<1>1. PICK indent \in 0..Len(blocks), opens \in {"none", "plain", "loop", "except"},
           call \in PythonCalls \cup {"none"} :
        LET stack == PopScopes(PushScope(opens, indent), indent)
            outer == SubSeq(blocks, 1, indent)
            kind == IF opens = "except" THEN "handler" ELSE opens
        IN  /\ opens # "none" => call = "none" /\ indent < MaxDepth
            /\ indent_stack' = stack
            /\ blocks' = IF opens = "none" THEN outer
                         ELSE Append(outer, [kind |-> kind, seen |-> FALSE,
                                             upto |-> 0, marked |-> FALSE])
            /\ last' = IF call = "none" THEN NoLog
                       ELSE [level |-> PythonLevel[call],
                             in_loop |-> \E i \in 1..Len(stack) :
                                             stack[i].scope = "loop",
                             in_error_handler |-> \E i \in 1..Len(stack) :
                                             stack[i].scope = "except"]
    OBVIOUS
<1> DEFINE pushed == PushScope(opens, indent)
           outer == SubSeq(blocks, 1, indent)
<1>2. Len(blocks) \in Nat /\ Len(blocks) <= MaxDepth /\ indent \in Nat
    BY LenProperties
<1>3. indent \in Depths
    BY <1>2, BoundsAssumption DEF Depths
<1>4. pushed \in Scopes
    BY <1>3, AppendProperties DEF PushScope
<1>5. indent_stack' \in Scopes
  <2> DEFINE kept == {n \in 0..Len(pushed) : n = 0 \/ pushed[n].indent < indent}
             n == CHOOSE m \in kept : \A k \in kept : k <= m
  <2>1. Len(pushed) \in Nat /\ kept \subseteq 0..Len(pushed) /\ 0 \in kept
      BY <1>4
  <2>2. \E m \in kept : \A k \in kept : k <= m
      BY <2>1, GreatestExists
  <2>3. n \in 0..Len(pushed)
      BY <2>1, <2>2
  <2>5. SubSeq(pushed, 1, n) \in Scopes
      BY <1>4, <2>3, PrefixProperties
  <2>6. PopScopes(pushed, indent) = SubSeq(pushed, 1, n)
      BY DEF PopScopes
  <2> QED  BY <1>1, <2>5, <2>6
<1>6. outer \in Seq(BlockType) /\ Len(outer) = indent
    BY PrefixProperties
<1>7. blocks' \in Seq(BlockType) /\ Len(blocks') <= MaxDepth
  <2>1. CASE opens = "none"
    <3>1. blocks' = outer
        BY <1>1, <2>1
    <3> QED  BY <1>2, <1>6, <3>1, BoundsAssumption
  <2>2. CASE opens # "none"
    <3> DEFINE new == [kind |-> IF opens = "except" THEN "handler" ELSE opens,
                       seen |-> FALSE, upto |-> 0, marked |-> FALSE]
    <3>1. new \in BlockType
        BY <2>2, BoundsAssumption DEF BlockType, Kinds, Depths
    <3>2. blocks' = Append(outer, new) /\ indent < MaxDepth
        BY <1>1, <2>2
    <3>3. blocks' \in Seq(BlockType) /\ Len(blocks') = indent + 1
        BY <1>6, <3>1, <3>2, AppendProperties
    <3> QED  BY <1>2, <3>2, <3>3, BoundsAssumption
  <2> QED  BY <2>1, <2>2
<1>8. last' \in [level: Levels, in_loop: BOOLEAN, in_error_handler: BOOLEAN]
  <2>1. CASE call = "none"
      BY <1>1, <2>1 DEF NoLog, Levels
  <2>2. CASE call # "none"
    <3> DEFINE stack == PopScopes(pushed, indent)
    <3>1. PythonLevel[call] \in Levels
        BY <2>2 DEF PythonLevel, PythonCalls, Levels
    <3>2. last' = [level |-> PythonLevel[call],
                   in_loop |-> \E i \in 1..Len(stack) : stack[i].scope = "loop",
                   in_error_handler |-> \E i \in 1..Len(stack) :
                                            stack[i].scope = "except"]
        BY <1>1, <2>2
    <3> QED  BY <3>1, <3>2
  <2> QED  BY <2>1, <2>2
<1>9. UNCHANGED <<lang, brace_depth, loop_start_depths, in_error_handler,
                  error_handler_brace_depth, pending>> /\ lang = "python"
    OBVIOUS
<1> QED  BY <1>5, <1>7, <1>8, <1>9

(* Every step is a line of a brace language or one of Python.              *)
LEMMA StepIsALine ==
    ASSUME Next
    PROVE  \/ PythonScanFile
           \/ /\ lang # "python"
              /\ \E l \in Lines : \E calls, level :
                    /\ ScanLine(l, calls, level)
                    /\ \A c \in calls : level[c] \in Levels
<1>1. CASE GoScanFile
  <2>1. PICK l \in Lines : ScanLine(l, GoCalls, GoLevel)
      BY <1>1 DEF GoScanFile
  <2>2. \A c \in GoCalls : GoLevel[c] \in Levels
      BY DEF GoCalls, GoLevel, Levels
  <2>3. lang # "python"
      BY <1>1 DEF GoScanFile
  <2> QED  BY <2>1, <2>2, <2>3
<1>2. CASE PHPScanFile
  <2>1. PICK l \in Lines : ScanLine(l, PHPCalls, PHPLevel)
      BY <1>2 DEF PHPScanFile
  <2>2. \A c \in PHPCalls : PHPLevel[c] \in Levels
      BY DEF PHPCalls, PHPLevel, Levels
  <2>3. lang # "python"
      BY <1>2 DEF PHPScanFile
  <2> QED  BY <2>1, <2>2, <2>3
<1>3. CASE TypeScriptScanFile
  <2>1. PICK l \in Lines : ScanLine(l, TypeScriptCalls, TypeScriptLevel)
      BY <1>3 DEF TypeScriptScanFile
  <2>2. \A c \in TypeScriptCalls : TypeScriptLevel[c] \in Levels
      BY DEF TypeScriptCalls, TypeScriptLevel, Levels
  <2>3. lang # "python"
      BY <1>3 DEF TypeScriptScanFile
  <2> QED  BY <2>1, <2>2, <2>3
<1> QED  BY <1>1, <1>2, <1>3 DEF Next

LEMMA TypeInit == Init => TypeInv
<1> SUFFICES ASSUME Init  PROVE TypeInv
    OBVIOUS
<1>1. 0 \in Depths
    BY BoundsAssumption DEF Depths
<1>2. NoLog \in [level: Levels, in_loop: BOOLEAN, in_error_handler: BOOLEAN]
    BY DEF NoLog, Levels
<1>3. lang \in Languages /\ (lang # "python" => brace_depth = Len(blocks))
    BY DEF Init
<1>4. blocks \in Seq(BlockType) /\ Len(blocks) <= MaxDepth
    BY BoundsAssumption, EmptySeq DEF Init
<1>5. indent_stack \in Seq([scope: {"loop", "except"}, indent: Depths])
    BY EmptySeq DEF Init
<1> QED  BY <1>1, <1>2, <1>3, <1>4, <1>5 DEF Init, TypeInv, STypeOK

LEMMA TypeNext == TypeInv /\ [Next]_vars => TypeInv'
<1> SUFFICES ASSUME TypeInv, [Next]_vars  PROVE TypeInv'
    OBVIOUS
<1>1. CASE UNCHANGED vars
    BY <1>1 DEF vars, TypeInv, STypeOK
<1>2. CASE PythonScanFile
    BY <1>2, PythonTyped
<1>3. CASE Next /\ ~PythonScanFile
  <2>1. PICK l \in Lines : \E calls, level :
            /\ ScanLine(l, calls, level)
            /\ \A c \in calls : level[c] \in Levels
      BY <1>3, StepIsALine
  <2>2. lang # "python"
      BY <1>3, StepIsALine
  <2> QED  BY <2>1, <2>2, ScanLineTyped
<1> QED  BY <1>1, <1>2, <1>3

(* The variables of the scanners keep their types.                         *)
THEOREM STypeCorrect == Spec => []STypeOK
<1>1. TypeInv => STypeOK
    BY DEF TypeInv
<1> QED  BY <1>1, TypeInit, TypeNext, PTL DEF Spec

-----------------------------------------------------------------------------
(* Loops. A seen loop has a depth in the scanner's list that is not        *)
(* greater than that of the last block opened on its line, which is open.  *)
(* A header that awaits its brace has left its own depth there.            *)
LoopInv ==
    lang # "python" =>
        /\ \A i \in 1..Len(blocks) :
              blocks[i].kind = "loop" /\ blocks[i].seen =>
                  /\ blocks[i].upto <= Len(blocks)
                  /\ \E d \in loop_start_depths : d <= blocks[i].upto
        /\ pending => brace_depth \in loop_start_depths
        /\ last # NoLog => (last.in_loop <=> loop_start_depths # {})

LEMMA LoopStep ==
    ASSUME TypeInv, LoopInv, lang # "python", NEW l \in Lines,
           NEW calls, NEW level, ScanLine(l, calls, level)
    PROVE  LoopInv'
<1> DEFINE left == Len(blocks) - l.closes
           depth == left + Len(l.opens)
<1>1. /\ blocks \in Seq(BlockType) /\ Len(blocks) <= MaxDepth
      /\ pending \in BOOLEAN /\ Len(blocks) \in Nat
      /\ brace_depth = Len(blocks) /\ loop_start_depths \subseteq Depths
      /\ \A i \in 1..Len(blocks) : blocks[i] \in BlockType
    BY LenProperties, ElementOfSeq DEF TypeInv, STypeOK
<1>2. /\ l.closes \in Nat /\ Len(l.opens) \in Nat /\ l.loop \in BOOLEAN
      /\ l.head => l.closes = 0 /\ l.opens = <<>>
    BY LineTyped
<1>3. /\ LineFits(l) /\ blocks' = BlocksAfter(l)
      /\ brace_depth' = DepthAfter(l)
      /\ loop_start_depths' = LoopsAfter(l)
      /\ pending' = (l.head /\ (l.loop \/ pending))
    BY DEF ScanLine
<1>4. /\ left \in 0..Len(blocks) /\ depth \in Depths /\ left <= depth
      /\ Len(blocks') = depth
      /\ \A i \in 1..left : /\ blocks'[i].kind = Remains(l, i).kind
                            /\ blocks'[i].seen = Remains(l, i).seen
                            /\ blocks'[i].upto = Remains(l, i).upto
      /\ \A i \in left + 1 .. depth :
            /\ blocks'[i].kind = Opened(l, i - left).kind
            /\ blocks'[i].seen = Opened(l, i - left).seen
            /\ blocks'[i].upto = Opened(l, i - left).upto
    BY <1>1, <1>3, AfterProperties
<1>5. depth \in Nat /\ left \in Nat /\ DepthAfter(l) = depth
    BY <1>1, <1>2, <1>4, BoundsAssumption DEF Depths, DepthAfter
<1>6. /\ \A d \in loop_start_depths : d <= depth => d \in loop_start_depths'
      /\ l.loop => depth \in loop_start_depths'
    BY <1>3, <1>5 DEF LoopsAfter
<1>7. \A d \in loop_start_depths : d \in Nat
    BY <1>1, BoundsAssumption DEF Depths
<1> HIDE DEF left, depth
<1>8. ASSUME NEW i \in 1..Len(blocks'), blocks'[i].kind = "loop", blocks'[i].seen
      PROVE  /\ blocks'[i].upto <= Len(blocks')
             /\ \E d \in loop_start_depths' : d <= blocks'[i].upto
  <2>1. CASE i \in 1..left
    <3>1. i \in 1..Len(blocks)
        BY <1>1, <1>4, <2>1
    <3>2. blocks[i] \in BlockType
        BY <1>1, <3>1
    <3>3. /\ blocks[i].kind = "loop" /\ blocks[i].seen
          /\ blocks[i].upto <= left /\ blocks'[i].upto = blocks[i].upto
      <4>1. /\ Remains(l, i).kind = blocks[i].kind
            /\ Remains(l, i).upto = blocks[i].upto
            /\ Remains(l, i).seen = (blocks[i].seen /\
                  IF blocks[i].kind = "loop" THEN blocks[i].upto <= left
                  ELSE \A j \in left + 1 .. Len(blocks) : ~blocks[j].marked)
          BY <3>2 DEF Remains, BlockType, left
      <4> QED  BY <1>4, <1>8, <2>1, <4>1
    <3>4. PICK d \in loop_start_depths : d <= blocks[i].upto
        BY <3>1, <3>3 DEF LoopInv
    <3>5. blocks[i].upto \in Nat
        BY <3>2, BoundsAssumption DEF BlockType, Depths
    <3>6. d \in Nat /\ d <= depth
        BY <1>4, <1>5, <1>7, <3>3, <3>4, <3>5
    <3>7. d \in loop_start_depths'
        BY <1>6, <3>4, <3>6
    <3>8. blocks'[i].upto <= Len(blocks')
        BY <1>4, <1>5, <3>3, <3>5
    <3> QED  BY <3>3, <3>4, <3>7, <3>8
  <2>2. CASE i \notin 1..left
    <3>1. i \in left + 1 .. depth /\ i - left \in Nat /\ i - left >= 1
        BY <1>4, <1>5, <2>2
    <3> DEFINE k == i - left
    <3>2. /\ blocks'[i].kind = Opened(l, k).kind
          /\ blocks'[i].seen = Opened(l, k).seen
          /\ blocks'[i].upto = Opened(l, k).upto
        BY <1>4, <3>1
    <3>3. /\ Opened(l, k).kind = l.opens[k]
          /\ Opened(l, k).seen = CASE l.opens[k] = "loop" -> LoopSeen(l, k)
                                   [] l.opens[k] = "handler" -> l.err
                                   [] OTHER -> FALSE
          /\ Opened(l, k).upto = IF Continues(l, k) THEN left + k
                                 ELSE left + Len(l.opens)
        BY DEF Opened, left
    <3>4. LoopSeen(l, k)
        BY <1>8, <3>2, <3>3
    <3>5. CASE Continues(l, k)
      <4>1. pending /\ l.closes = 0 /\ k = 1
          BY <3>5 DEF Continues
      <4>2. blocks'[i].upto = i /\ left = brace_depth
          BY <1>1, <1>5, <3>1, <3>2, <3>3, <3>5, <4>1 DEF left
      <4>3. brace_depth \in loop_start_depths
          BY <4>1 DEF LoopInv
      <4>4. brace_depth <= depth /\ brace_depth <= i /\ i <= depth
          BY <1>4, <1>5, <3>1, <4>2
      <4>5. brace_depth \in loop_start_depths'
          BY <1>6, <4>3, <4>4
      <4> QED  BY <1>4, <4>2, <4>4, <4>5
    <3>6. CASE ~Continues(l, k)
      <4>1. l.loop
          BY <3>4, <3>6 DEF LoopSeen
      <4>2. blocks'[i].upto = depth
          BY <3>2, <3>3, <3>6 DEF depth
      <4> QED  BY <1>4, <1>5, <1>6, <4>1, <4>2
    <3> QED  BY <3>5, <3>6
  <2> QED  BY <2>1, <2>2
<1>9. pending' => brace_depth' \in loop_start_depths'
  <2> SUFFICES ASSUME l.head /\ (l.loop \/ pending)
               PROVE  depth \in loop_start_depths'
      BY <1>3, <1>5
  <2>1. depth = brace_depth
    <3>1. l.closes = 0 /\ Len(l.opens) = 0
        BY <1>2, EmptySeq
    <3> QED  BY <1>1, <3>1 DEF depth, left
  <2>2. CASE l.loop
      BY <1>6, <2>2
  <2>3. CASE pending
    <3>1. brace_depth \in loop_start_depths
        BY <2>3 DEF LoopInv
    <3> QED  BY <1>5, <1>6, <2>1, <3>1
  <2> QED  BY <2>2, <2>3
<1>10. last' # NoLog' => (last'.in_loop <=> loop_start_depths' # {})
  <2> SUFFICES ASSUME last' # NoLog
               PROVE  last'.in_loop <=> loop_start_depths' # {}
      BY DEF NoLog
  <2>1. PICK call \in calls :
             last' = [level |-> level[call],
                      in_loop |-> loop_start_depths' # {},
                      in_error_handler |-> in_error_handler']
      BY DEF ScanLine
  <2> QED  BY <2>1
<1> QED  BY <1>8, <1>9, <1>10 DEF LoopInv

LEMMA LoopInit == Init => LoopInv
<1>1. Init => Len(blocks) = 0
    BY EmptySeq DEF Init
<1>2. 1..0 = {}
    OBVIOUS
<1> QED  BY <1>1, <1>2 DEF Init, LoopInv

LEMMA LoopNext == TypeInv /\ LoopInv /\ [Next]_vars => LoopInv'
<1> SUFFICES ASSUME TypeInv, LoopInv, [Next]_vars  PROVE LoopInv'
    OBVIOUS
<1>1. CASE UNCHANGED vars
    BY <1>1 DEF vars, LoopInv, NoLog
<1>2. CASE PythonScanFile
    BY <1>2 DEF PythonScanFile, LoopInv
<1>3. CASE Next /\ ~PythonScanFile
  <2>1. PICK l \in Lines : \E calls, level :
            /\ ScanLine(l, calls, level)
            /\ \A c \in calls : level[c] \in Levels
      BY <1>3, StepIsALine
  <2>2. lang # "python"
      BY <1>3, StepIsALine
  <2> QED  BY <2>1, <2>2, LoopStep
<1> QED  BY <1>1, <1>2, <1>3

(* scan_file (scan_logs.py:164-211): a loop is missed only if the pattern  *)
(* matched no line of its header or a block opened on its line has closed, *)
(* at any depth and after any lines.                                       *)
THEOREM MissedLoopsExplainedHolds == Spec => []MissedLoopsExplained
<1>1. LoopInv => MissedLoopsExplained
    BY DEF LoopInv, MissedLoopsExplained, BraceLog
<1> QED  BY <1>1, TypeInit, TypeNext, LoopInit, LoopNext, PTL DEF Spec

-----------------------------------------------------------------------------
(* Error handlers. While a handler is seen the flag is up, and its depth   *)
(* is that of a marked block at the handler or further in: a line that     *)
(* takes the flag down closes that block.                                  *)
HandlerInv ==
    lang # "python" =>
        /\ \A i \in 1..Len(blocks) :
              blocks[i].kind = "handler" /\ blocks[i].seen =>
                  /\ in_error_handler
                  /\ error_handler_brace_depth \in i..Len(blocks)
                  /\ blocks[error_handler_brace_depth].marked
        /\ last # NoLog => (last.in_error_handler <=> in_error_handler)

LEMMA HandlerStep ==
    ASSUME TypeInv, HandlerInv, lang # "python", NEW l \in Lines,
           NEW calls, NEW level, ScanLine(l, calls, level)
    PROVE  HandlerInv'
<1> DEFINE left == Len(blocks) - l.closes
           depth == left + Len(l.opens)
           start == error_handler_brace_depth
<1>1. /\ blocks \in Seq(BlockType) /\ Len(blocks) <= MaxDepth
      /\ pending \in BOOLEAN /\ Len(blocks) \in Nat
      /\ brace_depth = Len(blocks)
      /\ \A i \in 1..Len(blocks) : blocks[i] \in BlockType
    BY LenProperties, ElementOfSeq DEF TypeInv, STypeOK
<1>2. l.closes \in Nat /\ Len(l.opens) \in Nat /\ l.err \in BOOLEAN
    BY LineTyped
<1>3. /\ LineFits(l) /\ blocks' = BlocksAfter(l)
      /\ in_error_handler' = InHandlerAfter(l)
      /\ error_handler_brace_depth' = StartAfter(l)
    BY DEF ScanLine
<1>4. /\ left \in 0..Len(blocks) /\ depth \in Depths /\ left <= depth
      /\ Len(blocks') = depth
      /\ \A i \in 1..left : /\ blocks'[i].kind = Remains(l, i).kind
                            /\ blocks'[i].seen = Remains(l, i).seen
                            /\ Remains(l, i).marked => blocks'[i].marked
      /\ \A i \in left + 1 .. depth :
            /\ blocks'[i].kind = Opened(l, i - left).kind
            /\ blocks'[i].seen = Opened(l, i - left).seen
      /\ l.err /\ depth > 0 => blocks'[depth].marked
    BY <1>1, <1>3, AfterProperties
<1>5. depth \in Nat /\ left \in Nat /\ DepthAfter(l) = depth
    BY <1>1, <1>2, <1>4, BoundsAssumption DEF Depths, DepthAfter
<1> HIDE DEF left, depth, start
<1>6. ASSUME NEW i \in 1..Len(blocks'), blocks'[i].kind = "handler",
             blocks'[i].seen
      PROVE  /\ in_error_handler'
             /\ error_handler_brace_depth' \in i..Len(blocks')
             /\ blocks'[error_handler_brace_depth'].marked
  <2>1. i \in 1..depth /\ depth > 0
      BY <1>4, <1>5
  (* A match of the line answers for every handler that is open after it.  *)
  <2>2. CASE l.err
    <3>1. error_handler_brace_depth' = depth /\ in_error_handler'
      <4>1. StartAfter(l) = depth
          BY <1>5, <2>2 DEF StartAfter
      <4>2. DepthAfter(l) >= StartAfter(l)
          BY <1>5, <4>1
      <4>3. InHandlerAfter(l)
          BY <2>2, <4>2 DEF InHandlerAfter
      <4> QED  BY <1>3, <4>1, <4>3
    <3>2. blocks'[depth].marked
        BY <1>4, <2>1, <2>2
    <3>3. depth \in i..Len(blocks')
        BY <1>4, <1>5, <2>1
    <3> QED  BY <3>1, <3>2, <3>3
  <2>3. CASE ~l.err
    <3>1. i \in 1..left
      <4>1. CASE i \notin 1..left
        <5>1. i \in left + 1 .. depth
            BY <1>5, <2>1, <4>1
        <5>2. /\ Opened(l, i - left).kind = "handler" /\ Opened(l, i - left).seen
            BY <1>4, <1>6, <5>1
        <5>3. /\ Opened(l, i - left).kind = l.opens[i - left]
              /\ Opened(l, i - left).seen =
                    CASE l.opens[i - left] = "loop" -> LoopSeen(l, i - left)
                      [] l.opens[i - left] = "handler" -> l.err
                      [] OTHER -> FALSE
            BY DEF Opened
        <5> QED  BY <2>3, <5>2, <5>3
      <4> QED  BY <4>1
    <3>2. i \in 1..Len(blocks)
        BY <1>1, <1>4, <3>1
    <3>3. /\ blocks[i].kind = "handler" /\ blocks[i].seen
          /\ \A j \in left + 1 .. Len(blocks) : ~blocks[j].marked
      <4>1. blocks[i] \in BlockType
          BY <1>1, <3>2
      <4>2. /\ Remains(l, i).kind = blocks[i].kind
            /\ Remains(l, i).seen = (blocks[i].seen /\
                  IF blocks[i].kind = "loop" THEN blocks[i].upto <= left
                  ELSE \A j \in left + 1 .. Len(blocks) : ~blocks[j].marked)
          BY <4>1 DEF Remains, BlockType, left
      <4> QED  BY <1>4, <1>6, <3>1, <4>2
    <3>4. in_error_handler /\ start \in i..Len(blocks) /\ blocks[start].marked
        BY <3>2, <3>3 DEF HandlerInv, start
    (* The marked block is not among those the line closes.                *)
    <3>5. start \in i..left /\ start \in 1..left
        BY <1>1, <1>4, <1>5, <3>1, <3>3, <3>4
    <3>6. blocks'[start].marked
      <4>1. blocks[start] \in BlockType
          BY <1>1, <1>4, <3>5
      <4>2. Remains(l, start).marked = blocks[start].marked
          BY <4>1 DEF Remains, BlockType
      <4> QED  BY <1>4, <3>4, <3>5, <4>2
    <3>7. error_handler_brace_depth' = start /\ in_error_handler'
      <4>1. depth >= start
          BY <1>4, <1>5, <3>5
      <4> QED  BY <1>3, <1>5, <2>3, <3>4, <4>1 DEF StartAfter, InHandlerAfter, start
    <3>8. start \in i..Len(blocks')
        BY <1>4, <1>5, <3>5
    <3> QED  BY <3>6, <3>7, <3>8
  <2> QED  BY <2>2, <2>3
<1>7. last' # NoLog' => (last'.in_error_handler <=> in_error_handler')
  <2> SUFFICES ASSUME last' # NoLog
               PROVE  last'.in_error_handler <=> in_error_handler'
      BY DEF NoLog
  <2>1. PICK call \in calls :
             last' = [level |-> level[call],
                      in_loop |-> loop_start_depths' # {},
                      in_error_handler |-> in_error_handler']
      BY DEF ScanLine
  <2> QED  BY <2>1
<1> QED  BY <1>6, <1>7 DEF HandlerInv

LEMMA HandlerInit == Init => HandlerInv
<1>1. Init => Len(blocks) = 0
    BY EmptySeq DEF Init
<1>2. 1..0 = {}
    OBVIOUS
<1> QED  BY <1>1, <1>2 DEF Init, HandlerInv

LEMMA HandlerNext == TypeInv /\ HandlerInv /\ [Next]_vars => HandlerInv'
<1> SUFFICES ASSUME TypeInv, HandlerInv, [Next]_vars  PROVE HandlerInv'
    OBVIOUS
<1>1. CASE UNCHANGED vars
    BY <1>1 DEF vars, HandlerInv, NoLog
<1>2. CASE PythonScanFile
    BY <1>2 DEF PythonScanFile, HandlerInv
<1>3. CASE Next /\ ~PythonScanFile
  <2>1. PICK l \in Lines : \E calls, level :
            /\ ScanLine(l, calls, level)
            /\ \A c \in calls : level[c] \in Levels
      BY <1>3, StepIsALine
  <2>2. lang # "python"
      BY <1>3, StepIsALine
  <2> QED  BY <2>1, <2>2, HandlerStep
<1> QED  BY <1>1, <1>2, <1>3

(* scan_file (scan_logs.py:186-211): one flag and one depth miss a handler *)
(* only if the pattern did not match its line or the block of a match      *)
(* inside it has closed since.                                             *)
THEOREM MissedHandlersExplainedHolds == Spec => []MissedHandlersExplained
<1>1. HandlerInv => MissedHandlersExplained
    BY DEF HandlerInv, MissedHandlersExplained, BraceLog
<1> QED  BY <1>1, TypeInit, TypeNext, HandlerInit, HandlerNext, PTL DEF Spec
=============================================================================
