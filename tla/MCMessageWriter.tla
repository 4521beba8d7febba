--------------------------- MODULE MCMessageWriter ---------------------------
(* Instances of MessageWriter: the fields an application writes.           *)
EXTENDS MessageWriter

Of(kind, values) ==
    [i \in DOMAIN values |-> [kind |-> kind, value |-> values[i]]]
Codes(size, values) ==
    [i \in DOMAIN values |->
        [kind |-> "alphanumeric", size |-> size, value |-> values[i]]]

\* NULL, the values where a codec changes its form, and their neighbours.
\* Intervals of fewer than 64 minutes or hours are left out: README.md, section 4.
MCFieldLists ==
    {Of("puint30", <<Null, <<62>>, <<63>>, <<16383>>>>),
     Of("puint61", <<<<30>>, Null, <<8190>>, <<8191>>>>),
     Of("binary", <<<<<<>>>>, Null, <<<<7, 8, 9>>>>, Null>>),
     Of("interval", <<<<1>>, Null, <<63000>>, <<64000>>>>),
     Of("time", <<Null, <<0>>, <<8193>>, <<1000>>>>),
     Of("time", <<<<10000>>, <<330000>>, <<3600000>>, <<32000>>>>),
     Codes(3, <<<<<<63, 1, 32>>>>, Null, <<<<>>>>, <<<<5>>>>>>),
     Codes(10, <<Null, <<<<63, 1>>>>, <<[i \in 1..10 |-> 5 * i]>>, <<<<>>>>>>),
     Of("text", <<<<<<127, 128>>>>, Null, <<<<>>>>, <<<<2047, 2048>>>>>>),
     Of("text", <<<<<<65535>>>>, <<<<55296, 56320>>>>, <<<<65, 56319, 57343>>>>, Null>>)}
=============================================================================
