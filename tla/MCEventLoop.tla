------------------------------ MODULE MCEventLoop ------------------------------
\* Events and ways of using a loop for TLC.
EXTENDS EventLoop

CONSTANTS a, b, p, i, s    \* two timers, a cron timer, an idle and an io

\* Every kind of event, a few calls.
AllKinds == [events |-> {a, b, p, i, s}, delays |-> {1, 4}, repeats |-> {1, 2}, calls |-> {"add", "reset", "del", "stop"},
             ops |-> 3, flags |-> {"quit"}, slow |-> FALSE, resetDel |-> FALSE]

\* Two timers, more calls, callbacks that take time, a loop that frees itself.
SlowTimers == [events |-> {a, b}, delays |-> {1, 4}, repeats |-> {0, 1}, calls |-> {"add", "reset", "del"},
               ops |-> 5, flags |-> {"auto_free", "quit"}, slow |-> TRUE, resetDel |-> FALSE]

\* evloop_run is called again and again for one pass.
OnePass == [events |-> {a, i, s}, delays |-> {1, 2}, repeats |-> {0, 2}, calls |-> {"add", "reset", "del", "stop"},
            ops |-> 4, flags |-> {"run_once"}, slow |-> FALSE, resetDel |-> FALSE]

\* Short delays and callbacks that take time.
Busy == [events |-> {a, p, i, s}, delays |-> {1, 2}, repeats |-> {0, 1}, calls |-> {"add", "del", "stop"},
         ops |-> 3, flags |-> {"auto_free"}, slow |-> TRUE, resetDel |-> FALSE]

SafeUses == {AllKinds, SlowTimers, OnePass}
LiveUses == {Busy}
ResetDelUses == {[AllKinds EXCEPT !.events = {a, b}, !.delays = {1}, !.repeats = {1}, !.ops = 4, !.resetDel = TRUE]}
=============================================================================
