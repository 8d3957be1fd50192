---------------------------- MODULE MCDashboard ----------------------------
EXTENDS Dashboard

Arrived(sec, digits, type, authorized, status) ==
    [time |-> [sec |-> sec, digits |-> digits], type |-> type,
     authorized |-> authorized, status |-> status]

\* A member's item on a whole second and in the next one, a stranger's in a
\* later fraction of the first, and a member's event.
MCArrivals == {Arrived(5, <<>>, "text", TRUE, "queued"), Arrived(5, <<2>>, "image", FALSE, "ignored"),
               Arrived(6, <<>>, "text", TRUE, "queued"), Arrived(6, <<1>>, "unsupported", TRUE, "ignored")}
============================================================================
