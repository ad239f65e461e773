------------------------------- MODULE Request ------------------------------
(***************************************************************************)
(* One HTTP request (plugins/glib/lib/utils/request.dart): start with its  *)
(* awaits, and the callers that may cancel it or let it go at any of them, *)
(* also from inside a callback.  dio, the cache and the server are         *)
(* external: they answer, deliver the body in parts, fail, or fall silent. *)
(*                                                                         *)
(* As in collection.js, callbacks are set before anything else is called.  *)
(* The C++ request goes with its last reference and releases the Dart one, *)
(* which the pool destroys later (module Lifecycle).                       *)
(***************************************************************************)
EXTENDS Naturals, FiniteSets

CONSTANT Parts          \* in how many parts a whole body comes

ASSUME RequestAssumption == Parts \in Nat

VARIABLES cb,           \* the callbacks that are set
          pc,           \* where start is: "new", "dio", "cache", "body", "over"
          canceled,     \* _canceled
          sub,          \* _subscription: "none", "live" or "cancelled"
          got,          \* parts of the body so far
          body,         \* the parts in responseBody, or none
          error,        \* _error is set
          object,       \* "held", "released" or "destroyed"
          heard,        \* history: how often onComplete was invoked
          calls         \* history: the callback invoked by this step, or "none"

requestVars == <<cb, pc, canceled, sub, got, body, error, object, heard, calls>>

NoBody == Parts + 1     \* responseBody is null
Callbacks == {"progress", "complete", "response"}

-----------------------------------------------------------------------------
\* freeCallbacks: onResponse is not among them.
FreeCallbacks == {"progress", "complete"}

\* cancel, with the subscription s.
Cancelled(s) == /\ canceled' = TRUE
                /\ cb' = cb \ FreeCallbacks
                /\ sub' = IF s = "live" THEN "cancelled" ELSE s

\* The setters.
SetOn(k) == /\ pc = "new" /\ ~canceled
            /\ k \notin cb
            /\ cb' = cb \cup {k}
            /\ calls' = "none"
            /\ UNCHANGED <<pc, canceled, sub, got, body, error, object, heard>>

\* start, through the cache manager or through dio; a second call returns.
Start(p) == /\ pc = "new"
            /\ object = "held"
            /\ p \in {"dio", "cache"}
            /\ pc' = p
            /\ calls' = "none"
            /\ UNCHANGED <<cb, canceled, sub, got, body, error, object, heard>>

\* cancel, called by the holder of the request, again if it likes: a second
\* one finds the subscription that came after the first.
Cancel == /\ object = "held"
          /\ Cancelled(sub)
          /\ calls' = "none"
          /\ UNCHANGED <<pc, got, body, error, object, heard>>

\* Callback k is invoked if it is set, and may cancel the request, whose
\* subscription is s at that time.
Invoke(k, s) ==
    /\ calls' = IF k \in cb THEN k ELSE "none"
    /\ \/ UNCHANGED <<cb, canceled>> /\ sub' = s
       \/ k \in cb /\ object = "held" /\ Cancelled(s)

\* dio answers: nothing more for a cancelled request; otherwise onResponse, and
\* the body is listened to, also if onResponse has just cancelled.
OnAnswer == /\ pc = "dio"
            /\ IF canceled
               THEN pc' = "over" /\ calls' = "none" /\ UNCHANGED <<cb, canceled, sub>>
               ELSE /\ pc' = "body"
                    /\ calls' = IF "response" \in cb THEN "response" ELSE "none"
                    /\ sub' = "live"
                    /\ \/ UNCHANGED <<cb, canceled>>
                       \/ /\ "response" \in cb /\ object = "held"
                          /\ canceled' = TRUE /\ cb' = cb \ FreeCallbacks
            /\ UNCHANGED <<got, body, error, object, heard>>

\* A part of the body, to a live subscription.
OnPart == /\ pc = "body"
          /\ sub = "live"
          /\ got < Parts
          /\ got' = got + 1
          /\ Invoke("progress", sub)
          /\ UNCHANGED <<pc, body, error, object, heard>>

\* Progress of the cache manager.
OnCacheProgress == /\ pc = "cache"
                   /\ got < Parts
                   /\ got' = got + 1
                   /\ Invoke("progress", sub)
                   /\ UNCHANGED <<pc, body, error, object, heard>>

\* The end of start without an exception, with b in responseBody.
Finish(b) == /\ pc' = "over"
             /\ body' = b
             /\ heard' = heard + (IF "complete" \in cb THEN 1 ELSE 0)
             /\ Invoke("complete", sub)
             /\ UNCHANGED <<got, error, object>>

\* The stream ends after its last part; the cache manager hands out its file.
OnBody == /\ got = Parts
          /\ (pc = "body" /\ sub = "live") \/ pc = "cache"
          /\ Finish(got)

\* Mutant: the callbacks are kept after an error, and the end of start invokes
\* onComplete again.
CatchKept == /\ pc' = "over"
             /\ error' = TRUE
             /\ heard' = heard + (IF "complete" \in cb THEN 2 ELSE 0)
             /\ calls' = IF "complete" \in cb THEN "complete" ELSE "none"
             /\ UNCHANGED <<cb, canceled, sub, got, body, object>>

\* catch: onComplete, then cancel, so that the completion below it is not
\* reached a second time.
Catch == /\ pc' = "over"
         /\ error' = TRUE
         /\ heard' = heard + (IF "complete" \in cb THEN 1 ELSE 0)
         /\ calls' = IF "complete" \in cb THEN "complete" ELSE "none"
         /\ Cancelled(sub)
         /\ UNCHANGED <<got, body, object>>

\* No connection, a status of 500, a stream or a cache that fails.
OnError == /\ pc \in {"dio", "cache"} \/ (pc = "body" /\ sub = "live")
           /\ Catch

\* Mutant: only a cancelled request times out.
OnTimeoutCancelled == pc = "body" /\ canceled /\ Finish(got)

\* 30 seconds after the answer: an exception, except that a cancelled request
\* ends with what there is.
OnTimeout == /\ pc = "body"
             /\ IF canceled THEN Finish(got) ELSE Catch

-----------------------------------------------------------------------------
\* ~RequestImp: the last reference of the caller is gone.
ReleaseRequest == /\ object = "held"
                  /\ object' = "released"
                  /\ calls' = "none"
                  /\ UNCHANGED <<cb, pc, canceled, sub, got, body, error, heard>>

\* destroy, by the pool.
DestroyRequest == /\ object = "released"
                  /\ object' = "destroyed"
                  /\ cb' = cb \ FreeCallbacks
                  /\ calls' = "none"
                  /\ UNCHANGED <<pc, canceled, sub, got, body, error, heard>>

-----------------------------------------------------------------------------
RequestInit == /\ cb = {} /\ pc = "new" /\ canceled = FALSE /\ sub = "none"
               /\ got = 0 /\ body = NoBody /\ error = FALSE /\ object = "held"
               /\ heard = 0 /\ calls = "none"

Answers == OnAnswer \/ OnPart \/ OnCacheProgress \/ OnBody \/ OnError

RequestNext == \/ \E k \in Callbacks : SetOn(k)
               \/ \E p \in {"dio", "cache"} : Start(p)
               \/ Cancel \/ Answers \/ OnTimeout \/ ReleaseRequest \/ DestroyRequest

\* dio and the cache answer or fail, the timer of the body goes off, released
\* objects are swept.  A body may stop coming.
RequestSpec == /\ RequestInit /\ [][RequestNext]_requestVars
               /\ WF_requestVars(pc \in {"dio", "cache"} /\ Answers)
               /\ WF_requestVars(OnTimeout) /\ WF_requestVars(DestroyRequest)

-----------------------------------------------------------------------------
\* start, cancel and destroy: onComplete is invoked at most once, although both
\* the catch and the end of start invoke it, and when it finds no error there
\* is a whole body: the part of one that a cancelled request is left with is
\* shown to nobody.  After a cancel no callback is invoked any more, and after
\* destroy only onResponse, which destroy neither frees nor keeps from being
\* invoked by setting _canceled.
CallbackDiscipline ==
    [][calls' # "none" => /\ ~canceled
                          /\ object = "destroyed" => calls' = "response"
                          /\ calls' = "complete" => heard' = 1 /\ (error' \/ body' = Parts)]_requestVars

\* start: whoever set onComplete hears, unless he cancelled or let go.
Answered == pc \in {"dio", "cache"} /\ "complete" \in cb
               ~> heard = 1 \/ canceled \/ object # "held"

=============================================================================
