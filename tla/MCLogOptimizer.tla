--------------------------- MODULE MCLogOptimizer ---------------------------
(***************************************************************************)
(* Two repositories: the second, with one plain statement, shows what a    *)
(* failure in the first does to those after it.                            *)
(***************************************************************************)
EXTENDS LogOptimizer

Log(level, in_loop, handler, words) ==
    [level |-> level, in_loop |-> in_loop, in_error_handler |-> handler,
     words |-> words, late |-> {}, size |-> 300]
Code(call, log) == [call |-> call, log |-> log]

MCRepos == <<"first", "second">>
MCFiles == {"a", "b", "web"}
MCLanguageOf == [a |-> "go", b |-> "go", web |-> "typescript"]

Page == Code("console.log(", Log("INFO", TRUE, FALSE, {"starting"}))
Starting == Code("Infow(", Log("INFO", FALSE, FALSE, {"starting"}))
Plain == Code("Infow(", Log("INFO", FALSE, FALSE, {"starting"}))
InHandler == Code("Info(", Log("INFO", FALSE, TRUE, {"starting"}))
Payment == Code("Info(", Log("INFO", TRUE, FALSE, {"payment"}))
InLoop == Code("Info(", Log("INFO", TRUE, FALSE, {}))
Warning == Code("Warn(", Log("WARN", TRUE, FALSE, {"completed"}))
\* A long message whose last words tell of a payment.
LatePayment ==
    Code("Info(", [Log("INFO", FALSE, FALSE, {"starting", "payment"})
                      EXCEPT !.late = {"payment"}])

\* The pairs of statements in the first file of the first repository.
Pairs == {<<InHandler, LatePayment>>, <<InLoop, Payment>>, <<Warning, InLoop>>}

\* Nothing yet, or the first file.
MCCheckouts == {{}, {"a"}}

MCSources ==
    {[first |-> [a |-> pair, b |-> <<Starting>>, web |-> <<Page>>],
      second |-> [a |-> <<Plain>>, b |-> <<>>, web |-> <<>>]] : pair \in Pairs}
=============================================================================
