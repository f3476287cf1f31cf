----------------------------- MODULE Pagination -----------------------------
(* The loops over pages: txSearchAll, blockSearchAll and validatorsAll of the *)
(* comet clients, and the loops over nextKey of CosmWasmClient, while the    *)
(* chain they read from grows.                                               *)
EXTENDS Naturals, Sequences, FiniteSets

CONSTANTS
  PageSize,     \* entries that the node puts on a page
  Validators,   \* validators of a block
  MaxItems,     \* bound: results, codes or contracts on the chain
  MaxHeight     \* bound: the latest block

VARIABLES
  call,     \* what is asked for
  status,   \* of the promise: idle, pending, done or failed
  page, startAtKey, blockHeight,
  acc,      \* what has been collected, then what is returned
  items,    \* results on the chain, numbered as they are added
  height,   \* the latest block; every block has validators of its own
  outage,   \* history: the node did not answer
  before    \* history: items and height when the call was made

loop == <<call, status, page, startAtKey, blockHeight, acc>>
chain == <<items, height>>
history == <<outage, before>>
vars == <<loop, chain, history>>

\* Searches have an order and a page to start from (0 is none), validators a
\* height (0 is none), the other loops a node that sends a pagination or not.
Questions ==
  [kind : {"txs", "blocks"}, order : {"asc", "desc"}, page : 0..2]
    \cup [kind : {"validators"}, height : 0..1]
    \cup [kind : {"codes", "contracts"}, paginates : BOOLEAN]

NoKey == 0    \* nextKey is empty
Missing == 1  \* nextKey is undefined, which asks for the first page

Init ==
  /\ call \in Questions /\ status = "idle"
  /\ page = 1 /\ startAtKey = Missing /\ blockHeight = 0 /\ acc = <<>>
  /\ items \in 0..MaxItems /\ height = 1
  /\ outage = FALSE /\ before = [items |-> 0, height |-> 0]

Searches == {"txs", "blocks"}

OrElse(n, default) == IF n = 0 THEN default ELSE n

Invoke ==
  /\ status = "idle" /\ status' = "pending"
  /\ page' = IF call.kind \in Searches THEN OrElse(call.page, 1) ELSE 1
  /\ blockHeight' = IF call.kind = "validators" THEN call.height ELSE 0
  /\ before' = [items |-> items, height |-> height]
  /\ UNCHANGED <<call, startAtKey, acc, chain, outage>>
-----------------------------------------------------------------------------
(* The node.  A page that does not exist is an error.                        *)
Slice(s, from) == SubSeq(s, from, IF from + PageSize > Len(s) THEN Len(s) ELSE from + PageSize - 1)

Results(order) == [i \in 1..items |-> IF order = "asc" THEN i ELSE items + 1 - i]
ValidatorsOf(h) == [i \in 1..Validators |-> <<h, i>>]

PageOf(s, p) == Slice(s, (p - 1) * PageSize + 1)
Exists(p, total) == p = 1 \/ (p - 1) * PageSize < total

NextKey(key) == IF key + PageSize > items THEN NoKey ELSE key + PageSize
-----------------------------------------------------------------------------
(* The turns of the loops.                                                   *)
\* Array.sort() by height.
Ascending(s) ==
  LET smaller(i) == {j \in DOMAIN s : s[j] < s[i] \/ (s[j] = s[i] /\ j < i)}
  IN [k \in DOMAIN s |-> s[CHOOSE i \in DOMAIN s : Cardinality(smaller(i)) = k - 1]]

Sorted(s) == IF call.kind = "blocks" THEN Ascending(s) ELSE s

\* txSearchAll and blockSearchAll, which sorts what it has at the end.
Search ==
  LET got == acc \o PageOf(Results(call.order), page) IN
  /\ status = "pending" /\ call.kind \in Searches
  /\ \/ /\ ~Exists(page, items) /\ status' = "failed"
        /\ UNCHANGED <<acc, page>>
     \/ /\ Exists(page, items) /\ Len(got) < items
        /\ acc' = got /\ page' = page + 1 /\ UNCHANGED status
     \/ /\ Exists(page, items) /\ Len(got) >= items
        /\ acc' = Sorted(got) /\ status' = "done" /\ UNCHANGED page
  /\ UNCHANGED <<call, startAtKey, blockHeight, chain, history>>

\* Faulty: each page is asked of the latest block.
ValidatorsAllUnpinned ==
  LET got == acc \o PageOf(ValidatorsOf(OrElse(call.height, height)), page) IN
  /\ status = "pending" /\ call.kind = "validators"
  /\ acc' = got
  /\ \/ Len(got) < Validators /\ page' = page + 1 /\ UNCHANGED status
     \/ Len(got) >= Validators /\ status' = "done" /\ UNCHANGED page
  /\ blockHeight' = OrElse(call.height, height)
  /\ UNCHANGED <<call, startAtKey, chain, history>>

\* Without a height the block of the first response is kept for all pages.
ValidatorsAll ==
  LET h == OrElse(blockHeight, height)
      got == acc \o PageOf(ValidatorsOf(h), page) IN
  /\ status = "pending" /\ call.kind = "validators"
  /\ acc' = got /\ blockHeight' = h
  /\ \/ Len(got) < Validators /\ page' = page + 1 /\ UNCHANGED status
     \/ Len(got) >= Validators /\ status' = "done" /\ UNCHANGED page
  /\ UNCHANGED <<call, startAtKey, chain, history>>

\* Bound of an accumulator that grows for ever.
Overgrown == Len(acc) > 2 * MaxItems

\* Faulty: all three stop at an empty key only.
KeysUntilEmpty ==
  LET next == IF call.paginates THEN NextKey(startAtKey) ELSE Missing
      entries == IF call.paginates THEN Slice(Results("asc"), startAtKey) ELSE Results("asc") IN
  /\ status = "pending" /\ call.kind \in {"codes", "contracts"} /\ ~Overgrown
  /\ acc' = acc \o entries
  /\ startAtKey' = next
  /\ status' = IF next = NoKey THEN "done" ELSE "pending"
  /\ UNCHANGED <<call, page, blockHeight, chain, history>>

\* getCodes stops at an empty key only, getContracts and getContractsByCreator
\* also at a missing one.
Keys ==
  LET next == IF call.paginates THEN NextKey(startAtKey) ELSE Missing
      entries == IF call.paginates THEN Slice(Results("asc"), startAtKey) ELSE Results("asc") IN
  /\ status = "pending" /\ call.kind \in {"codes", "contracts"} /\ ~Overgrown
  /\ acc' = acc \o entries
  /\ startAtKey' = next
  /\ status' = IF next = NoKey \/ (next = Missing /\ call.kind # "codes") THEN "done" ELSE "pending"
  /\ UNCHANGED <<call, page, blockHeight, chain, history>>

RequestFails ==
  /\ status = "pending" /\ status' = "failed" /\ outage' = TRUE
  /\ UNCHANGED <<call, page, startAtKey, blockHeight, acc, chain, before>>

Turn == Search \/ ValidatorsAll \/ Keys

\* A block, with or without something that the call is about.
Block ==
  /\ height < MaxHeight /\ height' = height + 1
  /\ items' \in {items, items + 1} /\ items' <= MaxItems
  /\ UNCHANGED <<loop, history>>

Next == Invoke \/ Turn \/ RequestFails \/ Block

Spec == Init /\ [][Next]_vars

(* The node answers.                                                         *)
FairSpec == Spec /\ WF_vars(Turn)
-----------------------------------------------------------------------------
Grew == items > before.items

(* What a search returns is everything once, in order, and no less than the  *)
(* chain had when the search began, although blocks arrive between the       *)
(* pages; a search in descending order only if no result was added.          *)
SearchIsComplete ==
  (status = "done" /\ call.kind \in Searches /\ call.page < 2 /\ (call.order = "asc" \/ ~Grew)) =>
    /\ Len(acc) >= before.items
    /\ acc = IF call.kind = "blocks" \/ call.order = "asc" THEN [i \in DOMAIN acc |-> i] ELSE Results("desc")

(* validatorsAll returns the validators of one block, the one asked for or   *)
(* one not older than the call.                                              *)
ValidatorsOfOneBlock ==
  (status = "done" /\ call.kind = "validators") =>
    /\ acc = ValidatorsOf(blockHeight)
    /\ call.height # 0 => blockHeight = call.height
    /\ blockHeight >= IF call.height # 0 THEN call.height ELSE before.height

(* The loops over keys return every entry once.                              *)
KeysAreComplete ==
  (status = "done" /\ call.kind \in {"codes", "contracts"}) =>
    Len(acc) >= before.items /\ acc = [i \in DOMAIN acc |-> i]

PagesAreComplete == SearchIsComplete /\ ValidatorsOfOneBlock /\ KeysAreComplete

(* Every loop ends, except getCodes at a node that sends no pagination.      *)
LoopsEnd ==
  ~(call.kind = "codes" /\ ~call.paginates) => (status = "pending" ~> status \in {"done", "failed"})

(* "starts with page 1 or whatever was provided": a search from a page that  *)
(* exists is answered if the node answers.                                   *)
SearchesFromPage ==
  (status = "failed" /\ ~outage /\ call.kind \in Searches) => ~Exists(OrElse(call.page, 1), before.items)
=============================================================================
