------------------------------ MODULE S3Engine ------------------------------
(***************************************************************************)
(* The S3 engine of one process.  A call starts a request for each of its  *)
(* blocks, the service handles them in any order, and the call collects    *)
(* the answers in the order of its list: what was stored or fetched is     *)
(* cached, what was deleted is not, and the first failing get throws, so   *)
(* that nobody looks at the answers behind it.                             *)
(*                                                                         *)
(* Other processes put blocks into the bucket and delete blocks from it at *)
(* any time.  A failing answer may be a timeout: it says nothing of what   *)
(* the service has done.                                                   *)
(***************************************************************************)
EXTENDS BlockCache

CONSTANT Lists  \* the lists of blocks the engine is called with

ASSUME ListsAssumption == Lists \subseteq Seq(Blocks)

VARIABLES
  bucket,  \* the blocks that the service holds
  cache,   \* s3be::m_cache
  op,      \* the call that runs: "get", "put" or "del", or "none"
  ask,     \* the blocks that get_all has not looked for yet
  list,    \* the blocks whose answers are to be collected
  answer,  \* the answer for each of them: "sent" if there is none yet
  got,     \* what get_all has found so far
  gone     \* ghost: blocks that others have deleted, or that we deleted without
           \* having been told so

callVars == <<op, ask, list, answer, got>>
vars == <<bucket, cache, callVars, gone>>

Ops == {"none", "get", "put", "del"}
Answers == {"sent", "ok", "fail"}

Init ==
  /\ bucket = {} /\ cache = EmptyCache
  /\ op = "none" /\ ask = <<>> /\ list = <<>> /\ answer = <<>> /\ got = {}
  /\ gone = {}

-----------------------------------------------------------------------------
(* Calls *)

\* get_all, or get for a list of one.
Get(ids) ==
  /\ op = "none"
  /\ op' = "get"
  /\ ask' = ids
  /\ UNCHANGED <<bucket, cache, list, answer, got, gone>>

\* put_all and del_all, with a request for each block.
Request(kind, ids) ==
  /\ op = "none"
  /\ op' = kind
  /\ list' = ids
  /\ answer' = [i \in DOMAIN ids |-> "sent"]
  /\ UNCHANGED <<bucket, cache, ask, got, gone>>

\* get_all looks for the next block in the cache, or asks the service for it.
Ask ==
  /\ ask # <<>>
  /\ ask' = Tail(ask)
  /\ LET b == Head(ask)
     IN  IF IsCached(cache, b)
         THEN /\ cache' = Touch(cache, b)
              /\ got' = got \cup {b}
              /\ UNCHANGED <<list, answer>>
         ELSE /\ list' = Append(list, b)
              /\ answer' = Append(answer, "sent")
              /\ UNCHANGED <<cache, got>>
  /\ UNCHANGED <<bucket, op, gone>>

\* The call is over, and its lists are forgotten.
Done ==
  /\ op' = "none" /\ ask' = <<>> /\ list' = <<>> /\ answer' = <<>> /\ got' = {}

-----------------------------------------------------------------------------
(* The service, and other processes *)

\* The block is in the bucket from now on.
Appears(b) == bucket' = bucket \cup {b} /\ gone' = gone \ {b}

\* The block is not in the bucket any more.
Vanishes(b) == bucket' = bucket \ {b} /\ gone' = gone \cup {b}

\* What the service does with a request for block b, and what it answers, which
\* may not arrive in time.  Deleting what is not there is no failure.
Handled(b, said) ==
  \/ said = "fail" /\ UNCHANGED <<bucket, gone>>
  \/ op = "get" /\ said = "ok" /\ b \in bucket /\ UNCHANGED <<bucket, gone>>
  \/ op = "put" /\ Appears(b)
  \/ op = "del" /\ Vanishes(b)

Serve(i) ==
  /\ i \in DOMAIN list /\ answer[i] = "sent"
  /\ \E said \in {"ok", "fail"} :
       /\ Handled(list[i], said)
       /\ answer' = [answer EXCEPT ![i] = said]
  /\ UNCHANGED <<cache, op, ask, list, got>>

\* Another process over the same bucket.
Elsewhere(b) ==
  /\ Appears(b) \/ Vanishes(b)
  /\ UNCHANGED <<cache, callVars>>

-----------------------------------------------------------------------------
(* Answers *)

\* Mistake: the answer is looked at again for the next block.
CollectsUnread(said) ==
  /\ ask = <<>>
  /\ list # <<>> /\ Head(answer) = said
  /\ list' = Tail(list) /\ UNCHANGED answer

\* The next answer is there, and it is not to be waited for again.
Collects(said) ==
  /\ ask = <<>>
  /\ list # <<>> /\ Head(answer) = said
  /\ list' = Tail(list) /\ answer' = Tail(answer)

CollectGet ==
  /\ op = "get"
  /\ Collects("ok")
  /\ cache' = CachePut(cache, Head(list))
  /\ got' = got \cup {Head(list)}
  /\ UNCHANGED <<bucket, op, ask, gone>>

\* Mistake: a get that fails is tried again.
GetRetries ==
  /\ op = "get"
  /\ ask = <<>> /\ list # <<>> /\ Head(answer) = "fail"
  /\ answer' = [answer EXCEPT ![1] = "sent"]
  /\ UNCHANGED <<bucket, cache, op, ask, list, got, gone>>

\* readGetOutcome throws be_error.
GetThrows ==
  /\ op = "get"
  /\ ask = <<>> /\ list # <<>> /\ Head(answer) = "fail"
  /\ Done
  /\ UNCHANGED <<bucket, cache, gone>>

CollectPut ==
  /\ op = "put"
  /\ Collects("ok")
  /\ cache' = CachePut(cache, Head(list))
  /\ UNCHANGED <<bucket, op, ask, got, gone>>

\* Now we know that it is deleted.
CollectDel ==
  /\ op = "del"
  /\ Collects("ok")
  /\ cache' = CacheDel(cache, Head(list))
  /\ gone' = gone \ {Head(list)}
  /\ UNCHANGED <<bucket, op, ask, got>>

\* A block of put_all or del_all is reported as failed.
CollectFailure ==
  /\ op \in {"put", "del"}
  /\ Collects("fail")
  /\ UNCHANGED <<bucket, cache, op, ask, got, gone>>

Return ==
  /\ op # "none"
  /\ ask = <<>> /\ list = <<>>
  /\ Done
  /\ UNCHANGED <<bucket, cache, gone>>

\* A new process: what the service had not done yet it may still do or not.
Restart ==
  /\ cache' = EmptyCache
  /\ Done
  /\ \E S \in SUBSET {list[i] : i \in {j \in DOMAIN list : answer[j] = "sent"}} :
       CASE op = "put" -> bucket' = bucket \cup S /\ gone' = gone \ S
         [] op = "del" -> bucket' = bucket \ S /\ gone' = gone \cup S
         [] OTHER      -> UNCHANGED <<bucket, gone>>

\* What a call does until it returns.
Proceed ==
  \/ Ask
  \/ \E i \in DOMAIN list : Serve(i)
  \/ CollectGet \/ GetThrows \/ CollectPut \/ CollectDel \/ CollectFailure
  \/ Return

Next ==
  \/ \E ids \in Lists : Get(ids) \/ Request("put", ids) \/ Request("del", ids)
  \/ Proceed
  \/ \E b \in Blocks : Elsewhere(b)
  \/ Restart

Spec == Init /\ [][Next]_vars

\* The engine runs in one thread, and each request is answered or times out
\* (s3be.cpp:226-227).
FairSpec == Spec /\ WF_vars(Proceed)
-----------------------------------------------------------------------------
(* Properties *)

TypeOK ==
  /\ bucket \subseteq Blocks
  /\ cache \in [order : Seq(Blocks), size : 0..(Wrap - 1)]
  /\ op \in Ops
  /\ ask \in Seq(Blocks)
  /\ list \in Seq(Blocks)
  /\ answer \in Seq(Answers) /\ Len(answer) = Len(list)
  /\ got \subseteq Blocks
  /\ gone \subseteq Blocks

\* The size that the cache believes it has is never less than that of the
\* blocks it holds: put() counts a block that it does not insert and del() does
\* not take off what it removes, so that no eviction lets the size_t go below
\* zero, after which the cache would keep nothing (blockcache.cpp:28-45).
SizeCovered == Bytes(cache.order) <= cache.size

\* However its size has drifted, the cache holds no more than it may, and no
\* block twice.
CacheBounded ==
  /\ Bytes(cache.order) <= CacheSize
  /\ IsInjective(cache.order)

\* What the cache holds, and what a get_all has found, is in the bucket, unless
\* another process has deleted it, or a delete of our own that was reported as
\* failed or not at all (s3be.cpp:117-197).  In particular no put that failed
\* and no delete that is known leaves a block in the cache.
CacheHonest == Range(cache.order) \cup got \subseteq bucket \cup gone

\* Every call returns or throws, whatever the service answers, in any order.
CallsReturn == op # "none" ~> op = "none"
=============================================================================
