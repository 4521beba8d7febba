----------------------------- MODULE MCDatabase -----------------------------
(* A small instance of Database: the threads that close the cursor are the *)
(* one that owns the database and the handler of onDisconnected; and the   *)
(* responses over which HttpResponse is evaluated                          *)
EXTENDS Database, HttpResponse

MCClosers == {Owner, Session}

\* Pieces of a body: empty, a digit, what looks like the end of a header or of
\* a chunk, and one that takes two digits to count.
Pieces == {<<48>>, <<CR, LF, CR, LF>>, <<CR, LF, 48, CR, LF>>, [i \in 1..26 |-> 97]}
Bodies == {<<>>} \cup {<<a>> : a \in Pieces} \cup {<<a, b>> : a, b \in Pieces}

Responses ==
    {r \in [status : {StatusLine(200), StatusLine(500), StatusLine(99), OtherVersion},
            line : {OtherLine, TooLongLine},
            framing : {"counted", "chunked", "close"},
            extension : BOOLEAN, upper : BOOLEAN, pieces : Bodies] :
        /\ r.framing # "chunked" => ~r.extension /\ ~r.upper
        /\ r.line = TooLongLine \/ r.status = StatusLine(99) => Len(r.pieces) < 2}

\* Whatever the server answers and wherever the connection is lost, a request
\* tells its caller the whole answer or fails; a body that has no other end
\* than the connection's is the exception.
ASSUME AnswersAreWholeOrThrown ==
    \A r \in Responses : \A cut \in 0..Len(Wire(r)) : ToldWholeOrThrown(r, cut)
=============================================================================
