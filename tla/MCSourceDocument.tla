-------------------------- MODULE MCSourceDocument --------------------------
(* Two messages of one day, the second of which may join the first's thread, *)
(* and one of the next day that continues the thread of the day before.  A   *)
(* body may quote the end of a thread's block, the start of the second's, or *)
(* the second's entry of the log.                                            *)
EXTENDS SourceDocument

CONSTANTS first, second, later, today, tomorrow

MCDayOf   == [k \in Key |-> IF k = later THEN tomorrow ELSE today]
MCThreads == [k \in Key |-> CASE k = second -> {first, second}
                              [] OTHER -> {first}]

NoQuote    == [log |-> <<>>, ai |-> <<>>]
BlockEnd   == <<Mark("close", NoKey), Mark("threadEnd", NoKey)>>
BlockStart == <<Mark("thread", second), Mark("open", NoKey), Mark("item", second)>>
LogEntry   == <<Mark("start", second), Mark("end", second)>>
EndQuotes  == {NoQuote, [NoQuote EXCEPT !.ai = BlockEnd]}
MCQuotes   == {NoQuote, [NoQuote EXCEPT !.ai = BlockEnd],
               [NoQuote EXCEPT !.ai = BlockStart], [NoQuote EXCEPT !.log = LogEntry]}
=============================================================================
