----------------------------- MODULE PageCache -----------------------------
(***************************************************************************)
(* The public pages of the Castilla portal and the copies its readers keep *)
(* (castilla-portal http/cache.ts, cache.interceptor.ts).                   *)
(*                                                                         *)
(* A page's ETag is made of a nonce of the process and of a counter that   *)
(* whoever changes the page increments, never of the page's bytes.  A      *)
(* request gets its ETag first, then its handler runs its queries, each a  *)
(* statement of its own; a copy whose tag is still the page's is answered  *)
(* 304 without any query.                                                  *)
(***************************************************************************)
EXTENDS Naturals

CONSTANTS
  Pages,      \* cache keys
  Unseen,     \* no copy, no request
  MaxBoots    \* processes, one after the other

ASSUME PageCacheAssumption == MaxBoots \in Nat /\ Unseen \notin Pages

VARIABLES
  boot,       \* the process whose nonce is in the tags
  version,    \* ContentVersions of that process
  reading,    \* a request for each page: its tag, and what was read so far
  held        \* a reader's copy of each page and the tag it came with

cacheVars == << boot, version, reading, held >>

etagFor(page) == << boot, version[page] >>

bump(pages) ==
  version' = [ p \in Pages |-> version[p] + (IF p \in pages THEN 1 ELSE 0) ]

\* A copy that would be answered 304.
Unchanged(page) == held[page] # Unseen /\ held[page].tag = etagFor(page)

InitCache ==
  /\ boot = 1
  /\ version = [ p \in Pages |-> 0 ]
  /\ reading = [ p \in Pages |-> Unseen ]
  /\ held = [ p \in Pages |-> Unseen ]

\* intercept: no 304, so the tag is taken and the handler runs.
AskPage(page) ==
  /\ reading[page] = Unseen /\ ~Unchanged(page)
  /\ reading' = [ reading EXCEPT ![page] = [ tag |-> etagFor(page), has |-> << >> ] ]
  /\ UNCHANGED << boot, version, held >>

\* One statement of the handler, which reads what `part` says of some parts.
Query(page, part) ==
  /\ reading[page] # Unseen /\ DOMAIN part \cap DOMAIN reading[page].has = {}
  /\ reading' = [ reading EXCEPT ![page].has =
       [ x \in DOMAIN @ \cup DOMAIN part |-> IF x \in DOMAIN part THEN part[x] ELSE @[x] ] ]
  /\ UNCHANGED << boot, version, held >>

\* The tag the answer carries is the one taken before the handler ran.
TagWhenSent(page) == etagFor(page)
TagOf(page) == reading[page].tag

\* The answer reaches the reader, or is lost on its way.
Deliver(page, parts) ==
  /\ reading[page] # Unseen /\ DOMAIN reading[page].has = parts
  /\ \/ held' = [ held EXCEPT ![page] = [ tag |-> TagOf(page), has |-> reading[page].has ] ]
     \/ UNCHANGED held
  /\ reading' = [ reading EXCEPT ![page] = Unseen ]
  /\ UNCHANGED << boot, version >>

\* A new process: the counters start again under a new nonce.
Reboot ==
  /\ boot < MaxBoots /\ boot' = boot + 1
  /\ version' = [ p \in Pages |-> 0 ]
  /\ reading' = [ p \in Pages |-> Unseen ]
  /\ UNCHANGED held
=============================================================================
