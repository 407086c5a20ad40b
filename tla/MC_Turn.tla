------------------------------- MODULE MC_Turn -------------------------------
(* A turn of two requests with a budget of one or two, as TLC checks it.   *)
EXTENDS Turn

\* An agent's request, one that shows an empty locator result, one with too
\* many images and one that is no JSON.
MCRequests ==
    {[json |-> TRUE,  lawful |-> TRUE, images |-> 0,             empty |-> FALSE],
     [json |-> TRUE,  lawful |-> TRUE, images |-> 0,             empty |-> TRUE],
     [json |-> TRUE,  lawful |-> TRUE, images |-> MaxImages + 1, empty |-> FALSE],
     [json |-> FALSE, lawful |-> TRUE, images |-> 0,             empty |-> FALSE]}

Said(by) == [by |-> by, visible |-> TRUE, failed |-> FALSE]
Envelope(error, stop, final, payloads) ==
    [whole |-> TRUE, error |-> error, aborted |-> FALSE, fallback |-> FALSE,
     timeout |-> FALSE, alive |-> TRUE, stop |-> stop, final |-> final,
     payloads |-> payloads]

\* A normal end, a truncated one, an error with the framework's notice and
\* with or without a draft, a loop guard, and output cut short.
MCEnvelopes ==
    {Envelope("none", "stop", "none", <<Said("assistant")>>),
     Envelope("none", "length", "assistant", <<Said("framework")>>),
     Envelope("other", "none", "none", <<Said("framework")>>),
     Envelope("loop", "none", "assistant", <<Said("framework")>>),
     [Envelope("none", "none", "none", <<>>) EXCEPT !.whole = FALSE]}

=============================================================================
