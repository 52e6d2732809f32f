----------------------------- MODULE SearchIndex -----------------------------
(***************************************************************************)
(* The encrypted search index of one vault file (lp-vault/src/index.rs)    *)
(* and the item transactions that maintain it (vault.rs, foreign.rs).      *)
(* Every operation is one SQLite transaction, so each one is a function    *)
(* from a database to a database, and any number of processes only         *)
(* interleave them.  A sealed row opens iff it is undamaged and is read    *)
(* under the generation it was sealed with.                                *)
(***************************************************************************)
EXTENDS Integers, Sequences, FiniteSets, SequencesExt, FiniteSetsExt

CONSTANTS
    ItemId,         \* ids as u128 keys: a finite subset of 1 .. MaxKey
    MaxKey,         \* u128::MAX
    Payload,        \* the item bodies that writers use
    Query,          \* the searches that readers make
    WordsOf,        \* Tokenizer::words: a text -> set of words
    TrigramsOf,     \* Tokenizer::trigrams: a text -> set of grams
    HostOf,         \* the host of a URL
    Extensions,     \* Extensions[w]: the words with proper prefix w
    Target,         \* target_items_per_segment
    SplitThreshold, \* split_threshold
    MergeThreshold, \* merge_threshold
    NoItem,         \* no row in items
    MaxGeneration,  \* bound on meta.index_generation
    MaxDamage       \* bound on the number of damaged rows

ASSUME ConstantsAssumption ==
    /\ ItemId \subseteq 1 .. MaxKey
    /\ Target \in Nat \ {0} /\ SplitThreshold \in Nat \ {0} /\ MergeThreshold \in Nat \ {0}

VARIABLES
    db,         \* the vault file: see TypeOK
    copy,       \* data rows of an earlier copy of the file
    damaged     \* how many rows have been damaged so far

indexVars == <<db, copy, damaged>>

(***************************************************************************)
(* Tokens.  The namespaces of the code's prefixes ("tag:", "tri:", ...)    *)
(* are the first components of pairs, so they cannot collide.              *)
(***************************************************************************)
Word(w) == <<"word", w>>
Tagged(kind, vals) == { <<kind, v>> : v \in vals }

UrlTokens(u) ==
    {<<"url", u>>, <<"host", HostOf[u]>>} \cup Tagged("word", WordsOf[HostOf[u]])

(* The value of a field is indexed for URLs and for the user name only.    *)
FieldTokens(f) ==
    Tagged("word", WordsOf[f.name]) \cup
    CASE f.kind = "url" -> UrlTokens(f.value)
      [] f.kind = "text" /\ f.name = "username" -> Tagged("word", WordsOf[f.value])
      [] OTHER -> {}

ItemTokens(p) ==
    UNION { Tagged("word", WordsOf[p.title]),
            Tagged("tri", TrigramsOf[p.title]),
            UNION { Tagged("word", WordsOf[t]) : t \in p.tags },
            Tagged("tag", p.tags),
            UNION { FieldTokens(f) : f \in p.fields },
            UNION { UrlTokens(u) : u \in p.urls },
            Tagged("type", {p.type}),
            Tagged("folder", p.folder),
            IF p.favorite THEN {<<"fav", "true">>} ELSE {} }

(***************************************************************************)
(* A query is a sequence of raw words <<key, value>>, key "" for a word    *)
(* without a colon.                                                        *)
(***************************************************************************)
FilterOf(raw) ==
    CASE raw[1] \in {"type", "tag", "folder"} -> {raw}
      [] raw[1] \in {"fav", "favorite"} /\ raw[2] \in {"", "true", "1", "yes", "y"} -> {<<"fav", "true">>}
      [] raw[1] \in {"fav", "favorite"} /\ raw[2] \in {"false", "0", "no", "n"} -> {}
      [] raw[1] \in {"fav", "favorite"} -> {<<"fav", raw[2]>>}
      [] OTHER -> {}

TermsOf(raw) ==
    IF raw[1] \in {"type", "tag", "folder", "fav", "favorite", "vault"} THEN {}
    ELSE WordsOf[raw[2]]

ParsedQuery(q) == [terms   |-> UNION { TermsOf(q[i]) : i \in DOMAIN q },
                   filters |-> UNION { FilterOf(q[i]) : i \in DOMAIN q }]

IsUnconstrained(parsed) == parsed.terms = {} /\ parsed.filters = {}

-----------------------------------------------------------------------------
(***************************************************************************)
(* Segments.  A segment holds postings (token -> ids) and the reverse map  *)
(* item_tokens (id -> tokens), which deletes and splits go by.             *)
(***************************************************************************)
Empty(id, gen) == [segment_id |-> id, generation |-> gen,
                   postings |-> <<>>, item_tokens |-> <<>>]

(* retain in every posting list the item occurs in; drop empty lists.      *)
RemoveItem(seg, id) ==
    LET toks == IF id \in DOMAIN seg.item_tokens THEN seg.item_tokens[id] ELSE {}
        left == [t \in DOMAIN seg.postings |->
                    IF t \in toks THEN seg.postings[t] \ {id} ELSE seg.postings[t]]
        kept == { t \in DOMAIN left : t \notin toks \/ left[t] # {} }
    IN  [seg EXCEPT !.item_tokens = [i \in DOMAIN @ \ {id} |-> @[i]],
                    !.postings = [t \in kept |-> left[t]]]

(* Mutant: the tokens an item had before are not taken out first.          *)
UpsertItemAppend(seg, id, toks) ==
    LET Ids(t) == IF t \in DOMAIN seg.postings THEN seg.postings[t] ELSE {}
    IN  [seg EXCEPT !.item_tokens = [i \in DOMAIN @ \cup {id} |-> IF i = id THEN toks ELSE @[i]],
                    !.postings = [t \in DOMAIN @ \cup toks |->
                                     IF t \in toks THEN Ids(t) \cup {id} ELSE @[t]]]

UpsertItem(seg, id, toks) ==
    LET s == RemoveItem(seg, id)
        Ids(t) == IF t \in DOMAIN s.postings THEN s.postings[t] ELSE {}
    IN  [s EXCEPT !.item_tokens = [i \in DOMAIN @ \cup {id} |-> IF i = id THEN toks ELSE @[i]],
                  !.postings = [t \in DOMAIN @ \cup toks |->
                                   IF t \in toks THEN Ids(t) \cup {id} ELSE @[t]]]

ItemCount(seg) == Cardinality(DOMAIN seg.item_tokens)

(***************************************************************************)
(* Reading the database d.  segments is the index_segments table without   *)
(* the manifest row; a row is what is sealed in it, the generation it was  *)
(* sealed under, and whether it still opens.                               *)
(***************************************************************************)
LiveIds(d, lo, hi) ==
    { i \in ItemId : d.items[i] # NoItem /\ i \notin d.tombstones /\ i \in lo .. hi }

LoadManifest(d) ==
    IF d.manifest # {} /\ \A r \in d.manifest : r.generation = d.generation /\ r.opens
    THEN { r.body : r \in d.manifest } ELSE {}

(* Mutant: a row is trusted under whatever generation it was sealed.       *)
LoadSegmentUnchecked(d, id) ==
    IF id \in DOMAIN d.segments /\ d.segments[id].opens
    THEN {d.segments[id].body} ELSE {}

LoadSegment(d, id) ==
    IF id \in DOMAIN d.segments /\ d.segments[id].generation = d.generation /\ d.segments[id].opens
    THEN {d.segments[id].body} ELSE {}

PersistSegment(d, seg, gen) ==
    [d EXCEPT !.segments = [i \in DOMAIN @ \cup {seg.segment_id} |->
        IF i = seg.segment_id
        THEN [generation |-> gen, opens |-> TRUE, body |-> [seg EXCEPT !.generation = gen]]
        ELSE @[i]]]

PersistManifest(d, ranges, gen) ==
    [d EXCEPT !.manifest = {[generation |-> gen, opens |-> TRUE, body |-> ranges]},
              !.generation = gen]

(***************************************************************************)
(* Building from the items.                                                *)
(***************************************************************************)
BuildSegmentFromRange(d, id, gen, lo, hi) ==
    FoldSet(LAMBDA i, seg : UpsertItem(seg, i, ItemTokens(d.items[i])),
            Empty(id, gen), LiveIds(d, lo, hi))

SortRanges(rs) == SetToSortSeq(rs, LAMBDA a, b : a.lo < b.lo)

(* Chunks of Target live ids; the first range starts at 0 and the last     *)
(* ends at MaxKey, so that the ranges tile the key space.                  *)
RebuildRanges(d) ==
    LET ids == SetToSortSeq(LiveIds(d, 0, MaxKey), <)
        n   == Len(ids)
        count == (n + Target - 1) \div Target
        Lo(k) == IF k = 1 THEN 0 ELSE ids[(k - 1) * Target + 1]
        Hi(k) == IF k = count THEN MaxKey ELSE ids[k * Target + 1] - 1
    IN  IF n = 0 THEN <<[segment_id |-> 1, lo |-> 0, hi |-> MaxKey, item_count |-> 0]>>
        ELSE SortRanges({ [segment_id |-> k, lo |-> Lo(k), hi |-> Hi(k),
                           item_count |-> Cardinality(LiveIds(d, Lo(k), Hi(k)))] : k \in 1 .. count })

RebuildAtGeneration(d, gen) ==
    LET ranges == RebuildRanges(d)
        wiped  == [d EXCEPT !.segments = <<>>, !.manifest = {}]
        built  == FoldSet(LAMBDA k, e :
                      PersistSegment(e, BuildSegmentFromRange(d, k, gen, ranges[k].lo, ranges[k].hi), gen),
                      wiped, DOMAIN ranges)
    IN  PersistManifest(built, ranges, gen)

FullRebuild(d) == RebuildAtGeneration(d, d.generation + 1)

(* ensure_manifest: what it leaves in the database.  Afterwards the        *)
(* manifest loads.                                                         *)
EnsureManifest(d) ==
    IF LoadManifest(d) # {} THEN d
    ELSE IF d.manifest # {} \/ DOMAIN d.segments # {} THEN FullRebuild(d)
    ELSE RebuildAtGeneration(d, d.generation)

Ranges(d) == CHOOSE rs \in LoadManifest(d) : TRUE

OwningSegment(ranges, key) ==
    ranges[CHOOSE k \in DOMAIN ranges : key \in ranges[k].lo .. ranges[k].hi].segment_id

RangeOf(ranges, id) == CHOOSE k \in DOMAIN ranges : ranges[k].segment_id = id

(* ensure_segment: the segment, and the database with it persisted.        *)
SegmentOf(d, id) ==
    LET r == Ranges(d)[RangeOf(Ranges(d), id)]
    IN  IF LoadSegment(d, id) # {} THEN CHOOSE s \in LoadSegment(d, id) : TRUE
        ELSE BuildSegmentFromRange(d, id, d.generation, r.lo, r.hi)

EnsureSegment(d, id) ==
    IF LoadSegment(d, id) # {} THEN d ELSE PersistSegment(d, SegmentOf(d, id), d.generation)

NextSegmentId(ranges) == 1 + Max({0} \cup { ranges[k].segment_id : k \in DOMAIN ranges })

-----------------------------------------------------------------------------
(***************************************************************************)
(* The incremental update: the touched segment is persisted under the next *)
(* generation, split or merged with a neighbour; no other row is written.  *)
(***************************************************************************)
SetCount(ranges, id, n) == [ranges EXCEPT ![RangeOf(ranges, id)].item_count = n]

Part(seg, id, gen, ids) ==
    FoldSet(LAMBDA i, s : UpsertItem(s, i, seg.item_tokens[i]), Empty(id, gen), ids)

(* Mutant: the lower half keeps the count of the whole segment.            *)
SplitSegmentOff(d, ranges, seg, gen) ==
    LET keys  == SetToSortSeq(DOMAIN seg.item_tokens, <)
        split == keys[Len(keys) \div 2 + 1]
        newId == NextSegmentId(ranges)
        lower == Part(seg, seg.segment_id, gen, { i \in DOMAIN seg.item_tokens : i < split })
        upper == Part(seg, newId, gen, { i \in DOMAIN seg.item_tokens : i >= split })
        k     == RangeOf(ranges, seg.segment_id)
        new   == [segment_id |-> newId, lo |-> split, hi |-> ranges[k].hi,
                  item_count |-> ItemCount(upper)]
        shrunk == [ranges EXCEPT ![k] = [@ EXCEPT !.hi = split - 1]]
    IN  PersistManifest(PersistSegment(PersistSegment(d, lower, gen), upper, gen),
                        SortRanges(Range(shrunk) \cup {new}), gen)

SplitSegment(d, ranges, seg, gen) ==
    LET keys  == SetToSortSeq(DOMAIN seg.item_tokens, <)
        split == keys[Len(keys) \div 2 + 1]
        newId == NextSegmentId(ranges)
        lower == Part(seg, seg.segment_id, gen, { i \in DOMAIN seg.item_tokens : i < split })
        upper == Part(seg, newId, gen, { i \in DOMAIN seg.item_tokens : i >= split })
        k     == RangeOf(ranges, seg.segment_id)
        new   == [segment_id |-> newId, lo |-> split, hi |-> ranges[k].hi,
                  item_count |-> ItemCount(upper)]
        shrunk == [ranges EXCEPT ![k] = [@ EXCEPT !.hi = split - 1, !.item_count = ItemCount(lower)]]
    IN  PersistManifest(PersistSegment(PersistSegment(d, lower, gen), upper, gen),
                        SortRanges(Range(shrunk) \cup {new}), gen)

(* The right neighbour if there is one, else the left.                     *)
Neighbour(ranges, k) == IF k < Len(ranges) THEN k + 1 ELSE k - 1

MergeApplies(ranges, k) ==
    /\ Len(ranges) >= 2
    /\ \/ ranges[k].item_count = 0
       \/ ranges[k].item_count + ranges[Neighbour(ranges, k)].item_count < MergeThreshold

(* The merged range is built from the items again, under the lower         *)
(* segment's id; the higher one's row is deleted.                          *)
MergeSegment(d, ranges, k, gen) ==
    LET keep == IF Neighbour(ranges, k) > k THEN k ELSE k - 1
        kept == ranges[keep].segment_id
        dropped == ranges[keep + 1].segment_id
        merged == BuildSegmentFromRange(d, kept, gen, ranges[keep].lo, ranges[keep + 1].hi)
        wider  == [ranges EXCEPT ![keep] = [@ EXCEPT !.hi = ranges[keep + 1].hi,
                                                     !.item_count = ItemCount(merged)]]
        e == PersistSegment(d, merged, gen)
    IN  PersistManifest([e EXCEPT !.segments = [i \in DOMAIN @ \ {dropped} |-> @[i]]],
                        RemoveAt(wider, keep + 1), gen)

CommitTouchedSegment(d, seg, gen, mode) ==
    LET ranges == SetCount(Ranges(d), seg.segment_id, ItemCount(seg))
        k      == RangeOf(ranges, seg.segment_id)
    IN  IF mode = "MaySplit" /\ ItemCount(seg) > SplitThreshold
        THEN SplitSegment(d, ranges, seg, gen)
        ELSE IF mode = "MayMerge" /\ ItemCount(seg) < MergeThreshold /\ MergeApplies(ranges, k)
        THEN MergeSegment(d, ranges, k, gen)
        ELSE PersistManifest(PersistSegment(d, seg, gen), ranges, gen)

(* apply_upsert and apply_delete start alike: the database with a manifest *)
(* and the owner of the item readable, and that segment.  Transactions are *)
(* given as the set of databases they may commit, here exactly one.        *)
OpenOwner(d, id) ==
    UNION { { [db |-> EnsureSegment(m, owner), seg |-> SegmentOf(m, owner)] :
                 owner \in {OwningSegment(Ranges(m), id)} } : m \in {EnsureManifest(d)} }

(* Mutant: the touched segment is sealed again under the same generation.  *)
ApplyUpsertNoBump(d, id, p) ==
    UNION { { CommitTouchedSegment(o.db, seg, o.db.generation, "MaySplit") :
                 seg \in {UpsertItem(o.seg, id, ItemTokens(p))} } : o \in OpenOwner(d, id) }

ApplyUpsert(d, id, p) ==
    UNION { { CommitTouchedSegment(o.db, seg, o.db.generation + 1, "MaySplit") :
                 seg \in {UpsertItem(o.seg, id, ItemTokens(p))} } : o \in OpenOwner(d, id) }

ApplyDelete(d, id) ==
    UNION { { CommitTouchedSegment(o.db, seg, o.db.generation + 1, "MayMerge") :
                 seg \in {RemoveItem(o.seg, id)} } : o \in OpenOwner(d, id) }

IndexApplyForeign(d, id) ==
    IF id \in d.tombstones THEN ApplyDelete(d, id) ELSE ApplyUpsert(d, id, d.items[id])

-----------------------------------------------------------------------------
(***************************************************************************)
(* Queries.  Ranks: 2 exact word, 1 prefix of a word, 0 at least half of   *)
(* the term's trigrams.                                                    *)
(***************************************************************************)
PostingIds(segs, tok) ==
    UNION { s.postings[tok] : s \in { t \in segs : tok \in DOMAIN t.postings } }

PrefixIds(segs, w) == UNION { PostingIds(segs, Word(v)) : v \in Extensions[w] }

SharedGrams(segs, w, id) ==
    Cardinality({ g \in TrigramsOf[w] : id \in PostingIds(segs, <<"tri", g>>) })

TrigramIds(segs, w) ==
    LET need == Max({1, (Cardinality(TrigramsOf[w]) + 1) \div 2})
    IN  { i \in ItemId : SharedGrams(segs, w, i) >= need }

MatchTerm(segs, w) ==
    LET exact  == PostingIds(segs, Word(w))
        prefix == PrefixIds(segs, w)
        fuzzy  == TrigramIds(segs, w)
    IN  [i \in exact \cup prefix \cup fuzzy |->
            IF i \in exact THEN 2 ELSE IF i \in prefix THEN 1 ELSE 0]

MatchFilter(segs, f) == [i \in PostingIds(segs, f) |-> 2]

(* The running intersection keeps the weaker rank.                         *)
Intersect(f, g) == [i \in DOMAIN f \cap DOMAIN g |-> Min({f[i], g[i]})]

Ranked(ranks) ==
    SetToSortSeq(DOMAIN ranks,
                 LAMBDA i, j : ranks[i] > ranks[j] \/ (ranks[i] = ranks[j] /\ i < j))

DropTombstoned(d, ids) == SelectSeq(ids, LAMBDA i : i \notin d.tombstones)

(* ensure_manifest and ensure_segment for every range.                     *)
Repaired(d) ==
    { FoldSet(LAMBDA k, e : EnsureSegment(e, Ranges(m)[k].segment_id), m, DOMAIN Ranges(m)) :
        m \in {EnsureManifest(d)} }

Segments(d) == { SegmentOf(d, r.segment_id) : r \in Range(Ranges(d)) }

Matched(segs, parsed) ==
    LET matches == { MatchTerm(segs, w) : w \in parsed.terms }
                     \cup { MatchFilter(segs, f) : f \in parsed.filters }
    IN  IF IsUnconstrained(parsed) THEN [i \in UNION { DOMAIN s.item_tokens : s \in segs } |-> 2]
        ELSE FoldSet(Intersect, CHOOSE f \in matches : TRUE, matches)

(* query_in_tx on what it has repaired.                                    *)
QueryInTx(d, q) == DropTombstoned(d, Ranked(Matched(Segments(d), ParsedQuery(q))))

-----------------------------------------------------------------------------
(***************************************************************************)
(* The item transactions: rows first, then the index, then the commit.     *)
(***************************************************************************)
SetItem(d, id, p) == [d EXCEPT !.items[id] = p]

IndexInit ==
    /\ db = [items |-> [i \in ItemId |-> NoItem], tombstones |-> {},
             generation |-> 0, manifest |-> {}, segments |-> <<>>]
    /\ copy = <<>>
    /\ damaged = 0

Commit(outcomes) ==
    /\ db' \in { d \in outcomes : d.generation <= MaxGeneration }
    /\ UNCHANGED <<copy, damaged>>

CreateItem(id, p) ==
    /\ db.items[id] = NoItem
    /\ id \notin db.tombstones
    /\ Commit(ApplyUpsert(SetItem(db, id, p), id, p))

UpdateItem(id, p) ==
    /\ db.items[id] # NoItem
    /\ id \notin db.tombstones
    /\ Commit(ApplyUpsert(SetItem(db, id, p), id, p))

DeleteItem(id) ==
    /\ db.items[id] # NoItem
    /\ id \notin db.tombstones
    /\ Commit(ApplyDelete([db EXCEPT !.tombstones = @ \cup {id}], id))

(* restore_version and untrash_item; p is the body of the target version,  *)
(* which a foreign apply may have brought, so it is any body.              *)
RestoreVersion(id, p) ==
    /\ db.items[id] # NoItem
    /\ Commit(ApplyUpsert([SetItem(db, id, p) EXCEPT !.tombstones = @ \ {id}], id, p))

(* Shreds expired trash and leaves the index alone.                        *)
PurgeExpiredTrash(expired) ==
    /\ expired # {}
    /\ Commit({[db EXCEPT !.items = [i \in ItemId |-> IF i \in expired THEN NoItem ELSE @[i]],
                          !.tombstones = @ \ expired]})

(* One item of a foreign apply: rows replaced by the merge, tombstone      *)
(* written or cleared, then the index.                                     *)
MaterializeItem(d, id, p, dead) ==
    UNION { IndexApplyForeign(e, id) :
               e \in {[SetItem(d, id, p) EXCEPT !.tombstones = IF dead THEN @ \cup {id} ELSE @ \ {id}]} }

ApplyForeignOps(ids, body, dead) ==
    Commit(FoldSeq(LAMBDA i, ds : UNION { MaterializeItem(d, i, body[i], i \in dead) : d \in ds },
                   {db}, SetToSeq(ids)))

(* search: the query commits whatever it repaired.                         *)
Search == db' \in Repaired(db) /\ UNCHANGED <<copy, damaged>>

RebuildIndex == Commit({FullRebuild(db)})

(* Bit rot, and rows removed by hand or put back from an earlier copy of   *)
(* the file: what the generations and the recovery ladder are for.         *)
TakeCopy ==
    /\ copy = <<>>
    /\ damaged < MaxDamage
    /\ copy' = db.segments
    /\ UNCHANGED <<db, damaged>>

Damage(d) ==
    /\ damaged < MaxDamage
    /\ d # db
    /\ db' = d
    /\ damaged' = damaged + 1
    /\ UNCHANGED copy

Unreadable(row) == [row EXCEPT !.opens = FALSE]

DamageManifest ==
    \E left \in {{}, { Unreadable(r) : r \in db.manifest }} :
        Damage([db EXCEPT !.manifest = left])

DamageSegment(id) ==
    \/ Damage([db EXCEPT !.segments[id] = Unreadable(@)])
    \/ Damage([db EXCEPT !.segments = [i \in DOMAIN @ \ {id} |-> @[i]]])

RollBackSegment(id) ==
    Damage([db EXCEPT !.segments = [i \in DOMAIN @ \cup {id} |-> IF i = id THEN copy[i] ELSE @[i]]])

IndexNext ==
    \/ \E id \in ItemId, p \in Payload :
          CreateItem(id, p) \/ UpdateItem(id, p) \/ RestoreVersion(id, p)
    \/ \E id \in ItemId : DeleteItem(id)
    \/ \E expired \in SUBSET db.tombstones : PurgeExpiredTrash(expired)
    \/ \E ids \in kSubset(2, ItemId) \cup kSubset(1, ItemId) :
          \E body \in [ids -> Payload], dead \in SUBSET ids : ApplyForeignOps(ids, body, dead)
    \/ Search
    \/ RebuildIndex
    \/ TakeCopy
    \/ DamageManifest
    \/ \E id \in DOMAIN db.segments : DamageSegment(id)
    \/ \E id \in DOMAIN copy : RollBackSegment(id)

-----------------------------------------------------------------------------
(* Type invariant of the vault file: a tombstone belongs to an item row,   *)
(* the data rows have ids from 1 on, and no more than one manifest exists. *)
TypeOK ==
    /\ db.items \in [ItemId -> Payload \cup {NoItem}]
    /\ db.tombstones \subseteq { i \in ItemId : db.items[i] # NoItem }
    /\ db.generation \in 0 .. MaxGeneration + MaxDamage
    /\ Cardinality(db.manifest) <= 1
    /\ DOMAIN db.segments \subseteq 1 .. MaxKey
    /\ damaged \in 0 .. MaxDamage

(* A manifest that loads divides the whole key space into consecutive      *)
(* ranges with segment ids of their own, and counts the live items of each *)
(* exactly, after any sequence of splits and merges: owning_segment finds  *)
(* an owner for every id, and try_merge reads counts it never recomputes.  *)
RangesTile ==
    \A rs \in LoadManifest(db) :
        /\ rs[1].lo = 0 /\ rs[Len(rs)].hi = MaxKey
        /\ \A k \in 1 .. Len(rs) - 1 : rs[k].hi + 1 = rs[k + 1].lo
        /\ \A k, l \in DOMAIN rs : rs[k].segment_id = rs[l].segment_id => k = l
        /\ \A k \in DOMAIN rs :
              rs[k].item_count = Cardinality(LiveIds(db, rs[k].lo, rs[k].hi))

(* A segment that opens under the current generation holds exactly the     *)
(* live items of its range with the tokens of their current bodies, and    *)
(* its postings are the inverse of its reverse map.                        *)
SegmentsAgree ==
    \A rs \in LoadManifest(db) : \A k \in DOMAIN rs :
        \A s \in LoadSegment(db, rs[k].segment_id) :
            /\ DOMAIN s.item_tokens = LiveIds(db, rs[k].lo, rs[k].hi)
            /\ \A i \in DOMAIN s.item_tokens : s.item_tokens[i] = ItemTokens(db.items[i])
            /\ DOMAIN s.postings = UNION { s.item_tokens[i] : i \in DOMAIN s.item_tokens }
            /\ \A t \in DOMAIN s.postings :
                  s.postings[t] = { i \in DOMAIN s.item_tokens : t \in s.item_tokens[i] }

(* The reference: what a query means, item by item, without any index.     *)
TermRank(p, w) ==
    LET toks == ItemTokens(p)
        shared == { g \in TrigramsOf[w] : <<"tri", g>> \in toks }
    IN  IF Word(w) \in toks THEN 2
        ELSE IF \E v \in Extensions[w] : Word(v) \in toks THEN 1
        ELSE IF shared # {} /\ 2 * Cardinality(shared) >= Cardinality(TrigramsOf[w]) THEN 0
        ELSE -1

Answers(q, ids) ==
    LET parsed == ParsedQuery(q)
        Rank(i) == Min({2} \cup { TermRank(db.items[i], w) : w \in parsed.terms })
        hits == { i \in LiveIds(db, 0, MaxKey) :
                     /\ Rank(i) >= 0
                     /\ parsed.filters \subseteq ItemTokens(db.items[i]) }
    IN  /\ Range(ids) = hits /\ Len(ids) = Cardinality(hits)
        /\ \A m, n \in DOMAIN ids : m < n =>
              \/ Rank(ids[m]) > Rank(ids[n])
              \/ Rank(ids[m]) = Rank(ids[n]) /\ ids[m] < ids[n]

(* The index is only a cache: whatever is stale, damaged or missing, every *)
(* query answers the live items that a scan of the items would rank, in    *)
(* that order (search-index.md 7 and 8.1).                                 *)
QueryIsScan == \A d \in Repaired(db) : \A q \in Query : Answers(q, QueryInTx(d, q))

(* The generation never falls, and a row that opens is replaced by another *)
(* body only under a higher generation: AAD and generation together name   *)
(* one body (search-index.md 8.3 and 8.5), across writes, repairs, splits  *)
(* and merges that reuse the lower segment's id.                           *)
GenerationSeals ==
    [][/\ db'.generation >= db.generation
       /\ \A id \in DOMAIN db.segments \cap DOMAIN db'.segments :
             LET r == db.segments[id]
                 s == db'.segments[id]
             IN  (r.opens /\ s.opens /\ s.body # r.body /\ damaged' = damaged)
                    => s.generation > r.generation]_indexVars

=============================================================================
