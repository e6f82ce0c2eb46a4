--------------------------- MODULE MCRequestPipeline ---------------------------
EXTENDS RequestPipeline, TLC

CONSTANTS small, wide, huge

MCBytes == small :> 1 @@ wide :> 3 @@ huge :> 5
MCPacked == small :> 1 @@ wide :> 1 @@ huge :> 3

(* One event of each size; one with a naive timestamp; one *)
(* that cannot be encoded.                                                  *)
Event(id, time, payload) == [id |-> id, time |-> time, payload |-> payload]
MCItems == {Event(id, "absent", "plain") : id \in {small, wide, huge}} \cup
           {Event(small, "naive", "plain"), Event(wide, "aware", "surrogate")}

Option(retries, compression, threshold, size) ==
  [maxRetries |-> retries, compression |-> compression, threshold |-> threshold,
   maxQueue |-> size]

MCRawOptions ==
  {Option(1, "auto", 4, 3), Option(2, "none", 2, 2), Option(0, "gzip", 0, 2),
   Option(-1, "none", 2, 2), Option(1, "zip", 2, 2), Option(1, "auto", 2, 0)}

(* Retry-After: seconds, a date, and the forms only one SDK reads, such as  *)
(* 6e1 and 2030-01-01T00:00:00Z.                                            *)
Seconds(s) == [NoHeader EXCEPT !.number = {s}, !.decimal = TRUE]
Date(s) == [NoHeader EXCEPT !.date = {s}, !.jsDate = {s}]
Exponent(s) == [NoHeader EXCEPT !.number = {s}]
IsoDate(s) == [NoHeader EXCEPT !.jsDate = {s}]

ReadTwice(status, body, nodeBody, accepted) ==
  [status |-> status, header |-> NoHeader, body |-> body, nodeBody |-> nodeBody,
   accepted |-> accepted, retrySecs |-> {}]

Response(status, body, accepted) == ReadTwice(status, body, body, accepted)

Failure(status, header, secs) ==
  [Response(status, "error", 0) EXCEPT !.header = header, !.retrySecs = secs]

(* Acknowledgements right and wrong, a retryable status with every kind of  *)
(* hint of a delay, one response of each other class, and what the two SDKs *)
(* read differently: `accepted: 1.0`, JSON that only Python parses, and a   *)
(* `status` that is a list.                                                 *)
MCAnswers ==
  {Response(200, "ok", n) : n \in 1..2} \cup
  {Response(200, "other", 1), Response(302, "junk", 0), Response(503, "junk", 0),
   Response(409, "pending", 0), ReadTwice(200, "other", "ok", 1),
   ReadTwice(200, "ok", "junk", 1), ReadTwice(400, "mistyped", "other", 0)} \cup
  {Failure(503, header, {}) : header \in {Seconds(3), Seconds(121), Exponent(121), IsoDate(121)}} \cup
  {Failure(503, Date(-2), {3}), Failure(503, Date(3), {121}),
   Failure(503, NoHeader, {121}), Failure(503, NoHeader, {-2})} \cup
  {Failure(status, NoHeader, {3}) : status \in {401, 429, 501}}
===============================================================================
