----------------------------- MODULE LogScanner -----------------------------
(***************************************************************************)
(* The log scanners of the log-volume-optimizer tool (scan_logs.py).  A    *)
(* scanner reads a source file line by line and decides, from the braces   *)
(* (Go, PHP, TypeScript) or the indentation (Python) it has counted so     *)
(* far, whether a log call stands in a loop and whether it stands in an    *)
(* error handler.  A line of a brace language is any number of closing and *)
(* then of opening braces (those that pair on the line cancel), with or    *)
(* without a match of the loop pattern and of the error pattern, whatever  *)
(* it really opens.  Braces inside literals are taken to balance on their  *)
(* line.                                                                   *)
(***************************************************************************)
EXTENDS Integers, Sequences, FiniteSets

CONSTANTS
    MaxDepth,  \* bound: how deep the blocks of a file nest
    MaxBraces  \* bound: braces one line closes, and opens

ASSUME BoundsAssumption == MaxDepth \in Nat /\ MaxBraces \in Nat

Languages == {"go", "php", "typescript", "python"}

VARIABLES
    lang,                        \* the scanner that reads the file
    brace_depth,                 \* braces opened and not closed so far
    loop_start_depths,           \* depths at which a loop was seen, pruned
    in_error_handler,            \* the brace scanners' handler flag
    error_handler_brace_depth,   \* depth at which it was last raised
    indent_stack,                \* the Python scanner's scopes
    blocks,                      \* the blocks that are really open
    pending,                     \* a matched loop header awaits its brace
    last                         \* the LogStatement of the last line, if any

brace == <<brace_depth, loop_start_depths, in_error_handler,
           error_handler_brace_depth>>
vars == <<lang, brace_depth, loop_start_depths, in_error_handler,
          error_handler_brace_depth, indent_stack, blocks, pending, last>>

NoLog == [level |-> "none", in_loop |-> FALSE, in_error_handler |-> FALSE]

-----------------------------------------------------------------------------
(* The level a scanner reads off a call.                                   *)

GoCalls == {"Println", "Debug", "Info", "Warn", "Error", "DPanic", "Fatal"}
GoLevel == [Println |-> "INFO", Debug |-> "DEBUG", Info |-> "INFO",
            Warn |-> "WARN", Error |-> "ERROR", DPanic |-> "PANIC",
            Fatal |-> "FATAL"]

PHPCalls == {"debug", "info", "notice", "warning", "error", "critical",
             "emergency", "error_log"}
PHPLevel == [debug |-> "DEBUG", info |-> "INFO", notice |-> "WARN",
             warning |-> "WARN", error |-> "ERROR", critical |-> "FATAL",
             emergency |-> "FATAL", error_log |-> "ERROR"]

TypeScriptCalls == {"log", "debug", "info", "warn", "error", "fatal"}
TypeScriptLevel == [log |-> "INFO", debug |-> "DEBUG", info |-> "INFO",
                    warn |-> "WARN", error |-> "ERROR", fatal |-> "FATAL"]

\* Only EXCEPTION and CRITICAL are renamed: a warning keeps the name WARNING.
PythonCalls == {"debug", "info", "warning", "error", "critical", "exception"}
PythonLevel == [debug |-> "DEBUG", info |-> "INFO", warning |-> "WARNING",
                error |-> "ERROR", critical |-> "FATAL",
                exception |-> "ERROR"]

-----------------------------------------------------------------------------
(* Lines of code, and the blocks they really open.  A block remembers      *)
(* whether the pattern saw the line it was opened on (seen, until that no  *)
(* longer counts), the last block opened on that line (upto), and whether  *)
(* it was the innermost block after a match of the error pattern (marked). *)
(* The scanners know none of this.                                         *)

Kinds == {"plain", "loop", "handler"}

Opens == UNION {[1..n -> Kinds] : n \in 0..MaxBraces}

\* A line with head is part of a loop header that goes on past it.
Lines == {l \in [closes: 0..MaxBraces, opens: Opens, loop: BOOLEAN,
                 err: BOOLEAN, head: BOOLEAN] :
             l.head => l.closes = 0 /\ l.opens = <<>>}

LineFits(l) ==
    /\ l.closes <= Len(blocks)
    /\ Len(blocks) - l.closes + Len(l.opens) <= MaxDepth

\* The first block of a line can be the body of a loop whose header came
\* before.
Continues(l, k) == pending /\ l.closes = 0 /\ k = 1

LoopSeen(l, k) == l.loop \/ Continues(l, k)

\* Once a block closes that was opened on the same line as a loop, the line
\* is over for the scanner; once a marked block closes inside a handler, the
\* one flag is down for the rest of it.
Remains(l, i) ==
    LET left == Len(blocks) - l.closes
    IN  [blocks[i] EXCEPT !.seen = @ /\ IF blocks[i].kind = "loop"
            THEN blocks[i].upto <= left
            ELSE \A j \in left + 1 .. Len(blocks) : ~blocks[j].marked]

Opened(l, k) ==
    LET left == Len(blocks) - l.closes
    IN  [kind |-> l.opens[k],
         seen |-> CASE l.opens[k] = "loop" -> LoopSeen(l, k)
                    [] l.opens[k] = "handler" -> l.err
                    [] OTHER -> FALSE,
         upto |-> IF Continues(l, k) THEN left + k ELSE left + Len(l.opens),
         marked |-> FALSE]

BlocksAfter(l) ==
    LET left == Len(blocks) - l.closes
        depth == left + Len(l.opens)
        block(i) == IF i <= left THEN Remains(l, i) ELSE Opened(l, i - left)
    IN  [i \in 1..depth |->
            [block(i) EXCEPT !.marked = @ \/ (l.err /\ i = depth)]]

-----------------------------------------------------------------------------
Init ==
    /\ lang \in Languages
    /\ brace_depth = 0
    /\ loop_start_depths = {}
    /\ in_error_handler = FALSE
    /\ error_handler_brace_depth = 0
    /\ indent_stack = <<>>
    /\ blocks = <<>>
    /\ pending = FALSE
    /\ last = NoLog

DepthAfter(l) == brace_depth + Len(l.opens) - l.closes

\* Mutant: a loop ends where its depth is reached again.
LoopsEndEarly(l) ==
    {d \in loop_start_depths \cup (IF l.loop THEN {DepthAfter(l)} ELSE {}) :
        d < DepthAfter(l)}

\* The depths at which a loop was seen, without those that are left.
LoopsAfter(l) ==
    {d \in loop_start_depths \cup (IF l.loop THEN {DepthAfter(l)} ELSE {}) :
        d <= DepthAfter(l)}

StartAfter(l) == IF l.err THEN DepthAfter(l) ELSE error_handler_brace_depth

\* Mutant: a handler ends where its depth is reached again.
HandlerEndsEarly(l) ==
    (in_error_handler \/ l.err) /\ DepthAfter(l) > StartAfter(l)

InHandlerAfter(l) ==
    (in_error_handler \/ l.err) /\ DepthAfter(l) >= StartAfter(l)

\* One turn of the loop over the lines in scan_file: depth, loops, handler
\* flag, then the log call of the line.
ScanLine(l, calls, level) ==
    /\ LineFits(l)
    /\ brace_depth' = DepthAfter(l)
    /\ loop_start_depths' = LoopsAfter(l)
    /\ in_error_handler' = InHandlerAfter(l)
    /\ error_handler_brace_depth' = StartAfter(l)
    /\ blocks' = BlocksAfter(l)
    /\ pending' = (l.head /\ (l.loop \/ pending))
    /\ \/ last' = NoLog
       \/ \E call \in calls :
              last' = [level |-> level[call],
                       in_loop |-> loop_start_depths' # {},
                       in_error_handler |-> in_error_handler']
    /\ UNCHANGED <<lang, indent_stack>>

\* Every loop of Go starts with "for", which the pattern finds.
GoScanFile ==
    /\ lang = "go"
    /\ \E l \in Lines :
        /\ \A k \in 1..Len(l.opens) : l.opens[k] = "loop" => LoopSeen(l, k)
        /\ ScanLine(l, GoCalls, GoLevel)

PHPScanFile ==
    /\ lang = "php"
    /\ \E l \in Lines : ScanLine(l, PHPCalls, PHPLevel)

TypeScriptScanFile ==
    /\ lang = "typescript"
    /\ \E l \in Lines : ScanLine(l, TypeScriptCalls, TypeScriptLevel)

\* The Python scanner pushes the scope a line opens and then pops every scope
\* whose indent is not smaller than the line's, the new one included.
\* Popping recomputes the flags from what is left.
PushScope(kind, indent) ==
    IF kind \in {"loop", "except"}
    THEN Append(indent_stack, [scope |-> kind, indent |-> indent])
    ELSE indent_stack

PopScopes(stack, indent) ==
    LET kept == {n \in 0..Len(stack) :
                    n = 0 \/ stack[n].indent < indent}
        n == CHOOSE m \in kept : \A k \in kept : k <= m
    IN  SubSeq(stack, 1, n)

\* A line of Python stands at the indent of a block that is open; the blocks
\* below it are over.
PythonScanFile ==
    /\ lang = "python"
    /\ \E indent \in 0..Len(blocks),
          opens \in {"none", "plain", "loop", "except"},
          call \in PythonCalls \cup {"none"} :
        LET stack == PopScopes(PushScope(opens, indent), indent)
            outer == SubSeq(blocks, 1, indent)
            kind == IF opens = "except" THEN "handler" ELSE opens
        IN  /\ opens # "none" => call = "none" /\ indent < MaxDepth
            /\ indent_stack' = stack
            /\ blocks' = IF opens = "none" THEN outer
                         ELSE Append(outer, [kind |-> kind, seen |-> FALSE,
                                             upto |-> 0, marked |-> FALSE])
            /\ last' = IF call = "none" THEN NoLog
                       ELSE [level |-> PythonLevel[call],
                             in_loop |-> \E i \in 1..Len(stack) :
                                             stack[i].scope = "loop",
                             in_error_handler |-> \E i \in 1..Len(stack) :
                                             stack[i].scope = "except"]
    /\ UNCHANGED <<lang, brace_depth, loop_start_depths, in_error_handler,
                   error_handler_brace_depth, pending>>

Next == GoScanFile \/ PHPScanFile \/ TypeScriptScanFile \/ PythonScanFile

Spec == Init /\ [][Next]_vars

-----------------------------------------------------------------------------
(* Properties.                                                             *)

Depths == 0..MaxDepth
Levels == {"none", "DEBUG", "INFO", "WARN", "WARNING", "ERROR", "PANIC",
           "FATAL"}
BlockType == [kind: Kinds, seen: BOOLEAN, upto: Depths, marked: BOOLEAN]

\* Types of the scanners' variables and of the real blocks.
STypeOK ==
    /\ lang \in Languages
    /\ brace_depth \in Depths
    /\ loop_start_depths \subseteq Depths
    /\ in_error_handler \in BOOLEAN
    /\ error_handler_brace_depth \in Depths
    /\ indent_stack \in Seq([scope: {"loop", "except"}, indent: Depths])
    /\ blocks \in Seq(BlockType) /\ Len(blocks) <= MaxDepth
    /\ pending \in BOOLEAN
    /\ last \in [level: Levels, in_loop: BOOLEAN, in_error_handler: BOOLEAN]

BraceLog == lang # "python" /\ last # NoLog

\* The Go, PHP and TypeScript scanners miss a loop for two reasons only: a log
\* call inside a loop, at whatever depth and whatever closed before it, is
\* reported as in a loop, unless the pattern matched no line of the loop's
\* header (do {, for await () or a block opened on the same line as the loop
\* has closed since (for (...) { if (x) {).  A call that shares its line with
\* braces is judged after them, as the scanners do.
MissedLoopsExplained ==
    \A i \in 1..Len(blocks) :
        BraceLog /\ blocks[i].kind = "loop" /\ blocks[i].seen => last.in_loop

\* They miss an error handler for two reasons only: a log call inside one is
\* reported as such, unless the pattern did not match the line the handler
\* was opened on, or the innermost block after a match - of the handler's own
\* line, of a nested handler's, of one such as if (err) return; - has closed
\* since: one flag stands for all handlers, and that takes it down.
MissedHandlersExplained ==
    \A i \in 1..Len(blocks) :
        BraceLog /\ blocks[i].kind = "handler" /\ blocks[i].seen =>
            last.in_error_handler
=============================================================================
