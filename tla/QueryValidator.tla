--------------------------- MODULE QueryValidator ---------------------------
(***************************************************************************)
(* The `validate` command of monad-query-cli: what it reports about the    *)
(* blocks from .. to of the index as the writer has left it at any moment, *)
(* crashed, between two writes of a flush, or at rest.  It only reads; a   *)
(* report is a set of issues, of which it prints the first per record.     *)
(***************************************************************************)
EXTENDS QueryWriter

Metadata(f, n) == familyRange[<<f, n>>]
NextPrimaryId(f, n) == Metadata(f, n).first + Metadata(f, n).count
IdsOf(f, n) == Metadata(f, n).first .. NextPrimaryId(f, n) - 1

Issue(f, n, what) == [family |-> f, block |-> n, what |-> what]
When(test, issue) == IF test THEN {issue} ELSE {}

\* expected_family_ids holds what the last block before n with metadata leaves.
LastWithMetadata(f, m, n, from) ==
  /\ m >= from - 1 /\ <<f, m>> \in DOMAIN familyRange
  /\ \A o \in m + 1 .. n - 1 : <<f, o>> \notin DOMAIN familyRange

NonContiguous(f, n, from) ==
  \E m \in 0 .. n - 1 :
    LastWithMetadata(f, m, n, from) /\ NextPrimaryId(f, m) # Metadata(f, n).first

BlockIndexMismatch(f, n) ==
  /\ Metadata(f, n).count > 0
  /\ ~(/\ <<f, Metadata(f, n).first>> \in DOMAIN blockIndex
       /\ blockIndex[<<f, Metadata(f, n).first>>] = n)

\* Mutant: an id that begins a partition needs the location before it as well.
NeedsPrecedingAlways(id) == id > 0

NeedsPreceding(id) == id % ITEMS_PER_BLOB # 0

LocationIssues(f, n) ==
  UNION {When(<<f, id>> \notin DOMAIN location, Issue(f, n, "location"))
           \cup When(NeedsPreceding(id) /\ <<f, id - 1>> \notin DOMAIN location,
                     Issue(f, n, "preceding location")) : id \in IdsOf(f, n)}

\* Where the record begins and ends in its partition, once both are known.
Start(f, id) == IF NeedsPreceding(id) THEN location[<<f, id - 1>>] ELSE 0
Bounded(f, id) ==
  /\ <<f, Partition(id)>> \in DOMAIN blob
  /\ Start(f, id) <= location[<<f, id>>]
  /\ location[<<f, id>>] <= Len(blob[<<f, Partition(id)>>])
Item(f, id) == SubSeq(blob[<<f, Partition(id)>>], Start(f, id) + 1, location[<<f, id>>])

\* What the bytes of a record decode to: a row of the block with this hash.
RowOf(f, n, id) == BlockWithHash(blockHash[n]).rows[f][id - Metadata(f, n).first + 1]
Decodes(f, n, id) ==
  /\ n \in DOMAIN blockHash /\ BlockWithHash(blockHash[n]).number = n
  /\ id - Metadata(f, n).first < Len(BlockWithHash(blockHash[n]).rows[f])
  /\ RowOf(f, n, id).bytes = Item(f, id)

PayloadIssues(f, n) ==
  IF LocationIssues(f, n) # {} THEN LocationIssues(f, n)
  ELSE When(\E id \in IdsOf(f, n) : ~Bounded(f, id) \/ ~Decodes(f, n, id), Issue(f, n, "payload"))

\* validate_bitmap_membership; statistics that differ are only a warning.
MembershipIssues(f, n) ==
  When(\E id \in IdsOf(f, n) : \E w \in RowOf(f, n, id).filters :
         LET key == <<f, w, Page(id)>>
         IN \/ key \notin DOMAIN bitmap \/ key \notin DOMAIN pageStats
            \/ id - Page(id) \notin bitmap[key],
       Issue(f, n, "bitmap"))

validate_payload(f, n) ==
  IF PayloadIssues(f, n) # {} THEN PayloadIssues(f, n) ELSE MembershipIssues(f, n)

BlockIssues(f, n, from) ==
  When(n \notin DOMAIN blockHash, Issue(f, n, "block hash"))
    \cup IF <<f, n>> \notin DOMAIN familyRange THEN {Issue(f, n, "metadata")}
         ELSE When(NonContiguous(f, n, from), Issue(f, n, "ids"))
                \cup When(BlockIndexMismatch(f, n), Issue(f, n, "block index"))
                \cup validate_payload(f, n)

\* The bits of the records that were read, page by page.
ExpectedBits(from, to) ==
  UNION {UNION {{<<<<f, w, Page(id)>>, id - Page(id)>> : w \in RowOf(f, n, id).filters} :
                  id \in IF PayloadIssues(f, n) = {} THEN IdsOf(f, n) ELSE {}} :
         f \in Family, n \in from .. to}

\* Made only when the whole of the index is validated.
validate_bitmap_exact(from, to) ==
  LET expected == ExpectedBits(from, to)
  IN {Issue(key[1], to, "orphaned bits") :
        key \in {e[1] : e \in expected} \cap
                {k \in DOMAIN bitmap : bitmap[k] # {e[2] : e \in {x \in expected : x[1] = k}}}}

FrontierIssues(from, to) ==
  UNION {When(~\E m \in 0 .. to : /\ LastWithMetadata(f, m, to + 1, from)
                                  /\ NextPrimaryId(f, m) = stateIndex.next[f],
              Issue(f, to, "frontier")) : f \in Family \ {BlockHeader}}

run_validation(from, to) ==
  LET blocks == UNION {BlockIssues(f, n, from) : f \in Family, n \in from .. to}
      whole  == from = stateIndex.start /\ to = LastBlockId(stateIndex)
  IN blocks \cup (IF whole THEN validate_bitmap_exact(from, to) ELSE {})
       \cup (IF to = LastBlockId(stateIndex) THEN FrontierIssues(from, to) ELSE {})

-----------------------------------------------------------------------------
(* Whatever crash, failed write or flush under way the tables show, the    *)
(* validator finds nothing wrong with a range of committed blocks, but for *)
(* two alarms: the location before the first header of an index that       *)
(* starts inside a partition, which nobody ever writes; and bits beside    *)
(* the records it has read, which are those of that header or those at and *)
(* above the frontier that an unfinished flush has written.                *)
StartsInside == NeedsPreceding(stateIndex.start)
BitsInFlight(f) ==
  \E k \in DOMAIN bitmap : k[1] = f /\ \E bit \in bitmap[k] : k[3] + bit >= stateIndex.next[f]
ValidatorQuiet ==
  (stateIndex.started /\ HasLastBlock(stateIndex)) =>
    \A from, to \in stateIndex.start .. LastBlockId(stateIndex) :
      from <= to =>
        \A i \in run_validation(from, to) :
          \/ i = Issue(BlockHeader, stateIndex.start, "preceding location") /\ StartsInside
          \/ /\ i.what = "orphaned bits"
             /\ \/ i.family = BlockHeader /\ StartsInside
                \/ BitsInFlight(i.family)
=============================================================================
