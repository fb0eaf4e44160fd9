---------------------------- MODULE StaticProofs ----------------------------
(***************************************************************************)
(* OneVersionServed of module StaticFiles, for any tree of files, requests, *)
(* configurations and number of changes of the files.  The inductive       *)
(* invariant says what a request holds at each of its awaits: a version    *)
(* that was on the disk since it started, the handle opened on it, the     *)
(* range that was asked of it and the bytes read so far.                   *)
(***************************************************************************)
EXTENDS StaticFiles, FiniteSetTheorems, WellFoundedInduction, TLAPS

(* Minima: of two numbers, and of a set of places. *)
LEMMA MinOfTwo == ASSUME NEW a \in Int, NEW b \in Int PROVE Min({a, b}) = IF a <= b THEN a ELSE b
<1>1. \E x \in {a, b} : \A y \in {a, b} : x <= y
  OBVIOUS
<1>2. Min({a, b}) \in {a, b} /\ \A y \in {a, b} : Min({a, b}) <= y
  BY <1>1, Zenon DEF Min
<1> QED
  BY <1>2

LEMMA MinIsMember == ASSUME NEW S, S \subseteq Nat, S # {} PROVE Min(S) \in S
<1>1. \E x \in S : \A y \in S : ~(<<y, x>> \in OpToRel(<, Nat))
  BY WFMin, NatLessThanWellFounded, Zenon
<1>2. PICK x \in S : \A y \in S : ~(<<y, x>> \in OpToRel(<, Nat))
  BY <1>1, Zenon
<1>3. \A y \in S : x <= y
  <2> TAKE y \in S
  <2>1. x \in Nat /\ y \in Nat
    BY Zenon
  <2>2. ~(y < x)
    <3> SUFFICES ASSUME y < x PROVE FALSE
      BY Zenon
    <3>1. <<y, x>> \in OpToRel(<, Nat)
      BY <2>1, Zenon DEF OpToRel
    <3> QED
      BY <1>2, <3>1, Zenon
  <2> QED
    BY <2>1, <2>2
<1> QED
  BY <1>3, Zenon DEF Min

(* A range that parse_single_range returns lies in the file, and is the        *)
(* interval of the positions its element names.                                *)
LEMMA RangeIsInterval ==
  ASSUME NEW s \in [1 .. 2 -> Numbers], NEW size \in Nat, parse_single_range(s, size) = "some"
  PROVE  LET r == RangeOf(s, size)
         IN  /\ r \in [start : Nat, length : Nat]
             /\ r.start + r.length <= size
             /\ {i \in 0 .. size - 1 : Within(s, size, i)} = r.start .. r.start + r.length - 1
<1> DEFINE first == s[1]
           last == s[2]
           r == RangeOf(s, size)
<1>1. /\ first \in Nat \cup {-1, -2} /\ last \in Nat \cup {-1, -2}
      /\ Len(s) = 2
  BY DEF Numbers, Blank, NaN
<1>2. CASE first = Blank
  <2>1. last \in Nat /\ last > 0
    BY <1>1, <1>2 DEF parse_single_range, Blank, NaN
  <2>2. PICK m : m = Min({last, size}) /\ m = IF last <= size THEN last ELSE size
    BY <2>1, MinOfTwo
  <2>3. r = [start |-> size - m, length |-> m]
    BY <1>2, <2>2, Zenon DEF RangeOf
  <2>4. \A i \in 0 .. size - 1 : Within(s, size, i) <=> i >= size - last
    BY <1>2, Zenon DEF Within
  <2> HIDE DEF r, first, last
  <2>5. r.start = size - m /\ r.length = m /\ m \in Nat /\ m <= size
    BY <2>1, <2>2, <2>3
  <2>6. {i \in 0 .. size - 1 : Within(s, size, i)} = r.start .. r.start + r.length - 1
    BY <2>1, <2>2, <2>4, <2>5
  <2> QED
    BY <2>3, <2>5, <2>6 DEF r
<1>3. CASE first # Blank
  <2>1. first \in Nat /\ first < size /\ (last = Blank \/ (last \in Nat /\ first <= last))
    BY <1>1, <1>3 DEF parse_single_range, Blank, NaN
  <2>2. PICK m : m = Min({last, size - 1}) /\ (last # Blank => m = IF last <= size - 1 THEN last ELSE size - 1)
    BY <1>1, MinOfTwo DEF Blank, NaN
  <2>3. r = [start |-> first, length |-> IF last = Blank THEN size - first ELSE m - first + 1]
    BY <1>3, <2>2, Zenon DEF RangeOf
  <2>4. \A i \in 0 .. size - 1 : Within(s, size, i) <=> i >= first /\ (last = Blank \/ i <= last)
    BY <1>3, Zenon DEF Within
  <2> HIDE DEF r, first, last
  <2>5. r.start = first /\ r.length = IF last = Blank THEN size - first ELSE m - first + 1
    BY <2>3, Zenon
  <2>6. r.length \in Nat /\ first + r.length <= size
    BY <2>1, <2>2, <2>5
  <2>7. {i \in 0 .. size - 1 : Within(s, size, i)} = r.start .. r.start + r.length - 1
    BY <2>1, <2>2, <2>4, <2>5, <2>6
  <2> QED
    BY <2>1, <2>3, <2>5, <2>6, <2>7, Zenon DEF r
<1> QED
  BY <1>2, <1>3, Zenon

LEMMA TwoNumbers == \A s \in Specs : Len(s) = 2 => s \in [1 .. 2 -> Numbers]
  BY DEF Specs

(* r is a range of a file of that size, and holds the positions asked for. *)
AsAsked(r, header, size) ==
  /\ r \in [start : Nat, length : Nat]
  /\ r.start + r.length <= size
  /\ Asked(header, size) = r.start .. r.start + r.length - 1

(* The elements that give a range have two numbers, and a blank one gives      *)
(* none: the first range of the reply is the first one asked for.              *)
LEMMA AskedIsFirst ==
  ASSUME NEW header, header.specs \in Seq(Specs), NEW size \in Nat, SpecsThatAre("some", header, size) # {}
  PROVE  AsAsked(RangeOf(header.specs[Min(SpecsThatAre("some", header, size))], size), header, size)
<1> DEFINE found == SpecsThatAre("some", header, size)
           wanted == {i \in DOMAIN header.specs : Len(header.specs[i]) = 2 /\ parse_single_range(header.specs[i], size) = "some"}
<1>1. \A i \in DOMAIN header.specs : header.specs[i] \in Specs /\ i \in Nat
  OBVIOUS
<1>2. \A s \in Specs : s = <<>> \/ (Len(s) = 1 /\ s # <<>>) \/ (Len(s) = 2 /\ s # <<>> /\ s \in [1 .. 2 -> Numbers])
  BY DEF Specs
<1>3. \A s : Len(s) = 1 => parse_single_range(s, size) # "some"
  BY Zenon DEF parse_single_range
<1>4. Len(<<>>) # 2
  OBVIOUS
<1>5. \A i \in DOMAIN header.specs : header.specs[i] # <<>> /\ parse_single_range(header.specs[i], size) = "some"
        <=> Len(header.specs[i]) = 2 /\ parse_single_range(header.specs[i], size) = "some"
  BY <1>1, <1>2, <1>3, <1>4, Zenon
<1>6. found = wanted
  BY <1>5, Zenon DEF SpecsThatAre
<1>7. found \subseteq Nat /\ found # {}
  BY <1>1, Zenon DEF SpecsThatAre
<1>8. Min(found) \in wanted
  BY <1>6, <1>7, MinIsMember, Zenon
<1> DEFINE s == header.specs[Min(found)]
<1>9. s \in [1 .. 2 -> Numbers] /\ parse_single_range(s, size) = "some"
  <2>1. Min(found) \in DOMAIN header.specs /\ Len(s) = 2 /\ parse_single_range(s, size) = "some"
    BY <1>8, Zenon
  <2> HIDE DEF found, wanted
  <2>2. s \in Specs
    BY <1>1, <2>1, Zenon
  <2> HIDE DEF s
  <2> QED
    BY <2>1, <2>2, TwoNumbers, Zenon
<1>10. Asked(header, size) = {i \in 0 .. size - 1 : Within(s, size, i)}
  BY <1>6, Zenon DEF Asked
<1> QED
  BY <1>9, <1>10, RangeIsInterval, Zenon DEF AsAsked

-----------------------------------------------------------------------------
(* What is known of the disk and the cache: only a path that was a directory   *)
(* when the service started is one later.                                      *)
Objects == [path : StaticPaths, real : StaticPaths \cup Targets \cup {Root}, meta : Metas, link : BOOLEAN]

DiskOk ==
  /\ disk \in [StaticPaths -> Nodes]
  /\ changes \in Nat
  /\ cache \in [StaticPaths -> Objects \cup {AbsentNode}]
  /\ \A p \in StaticPaths : disk[p].meta.kind = "dir" => p \in DirPaths
  /\ \A p \in StaticPaths : cache[p].meta.kind = "dir" => p \in DirPaths

(* The locals of a request: its path may exist, and from the open on there is  *)
(* a file's object.                                                            *)
CallFields == {"pc", "req", "conf", "path", "object", "index", "reloaded", "handle", "reply", "left", "torn"}
ReplyFields == {"status", "of", "range", "security", "body"}

Shaped(c) == c = [k \in CallFields |-> c[k]] /\ c.reply = [k \in ReplyFields |-> c.reply[k]]

Placed(c) ==
  /\ c.pc \in {"lookup", "entry", "index", "confine", "open", "reload", "respond", "read", "done"}
  /\ c.req \in DOMAIN Requests /\ c.conf \in DOMAIN Configs
  /\ c.torn \in BOOLEAN
  /\ c.path \in StaticPaths
  /\ c.pc \in {"lookup", "entry", "index"} => c.index \in Nat \ {0}
  /\ c.pc \in {"entry", "confine"} => c.object \in Objects /\ (c.object.meta.kind = "dir" => c.path \in DirPaths)
  /\ c.pc = "index" => c.path \in DirPaths
  /\ c.pc \in {"open", "reload", "respond"} => c.object \in Objects /\ c.object.meta.kind = "file"

(* Before the answer the object is a version that was on the disk, and the     *)
(* handle is its own unless it was written in place.                           *)
Answering(c, versions) ==
  c.pc = "respond" => c.object.meta \in versions /\ (~c.torn => c.handle = c.object.meta)

(* While the body is read the reply is about such a version, its range lies in *)
(* it, and what has been read so far are its bytes.                            *)
ReplyOk(reply, versions) ==
  /\ reply.status \in {200, 206}
  /\ reply.of \in Metas /\ reply.of \in versions /\ reply.of.kind = "file"
  /\ reply.range \in [start : Nat, length : Nat]
  /\ reply.range.start + reply.range.length <= reply.of.size

Reading(c, versions) ==
  c.pc = "read" =>
    /\ ~Requests[c.req].head
    /\ ReplyOk(c.reply, versions)
    /\ RangeAsAsked(c.reply, Requests[c.req].range)
    /\ c.left \in 0 .. c.reply.range.length
    /\ ~c.torn => c.handle = c.reply.of /\ c.reply.body = FileBytes(c.reply.of.id, c.reply.range.start, c.reply.range.length - c.left)

(* OneVersionServed of one request. *)
Served(c, versions) ==
  c.pc = "done" =>
    /\ c.reply.status = 500 => c.torn
    /\ c.reply.status \in {200, 206, 304, 416} /\ c.reply.of # NoMeta => c.reply.of \in versions
    /\ c.reply.status \in {200, 206} /\ c.reply.of # NoMeta =>
         /\ RangeAsAsked(c.reply, Requests[c.req].range)
         /\ ~Requests[c.req].head /\ ~c.torn => c.reply.body = FileBytes(c.reply.of.id, c.reply.range.start, c.reply.range.length)

CallOk(c, versions) == Shaped(c) /\ Placed(c) /\ Answering(c, versions) /\ Reading(c, versions) /\ Served(c, versions)

(* What has been at every path since the request began, and at its own.       *)
Current == \A p \in StaticPaths : disk[p].meta \in seen[p]

Versions == seen[call.path]

StaticInv == DiskOk /\ (call.pc = "idle" \/ (Current /\ CallOk(call, Versions)))

LEMMA StaticInvInit == StaticInit => StaticInv
<1> SUFFICES ASSUME StaticInit PROVE StaticInv
  BY Zenon
<1>1. call.pc = "idle"
  BY Zenon DEF StaticInit, Idle
<1>2. disk \in [StaticPaths -> Nodes] /\ \A p \in StaticPaths : disk[p].meta.kind = "dir" => p \in DirPaths
  BY StaticAssumption, Zenon DEF StaticInit, DirPaths
<1>3. AbsentNode.meta.kind = "absent"
  BY Zenon DEF AbsentNode, NoMeta
<1>4. cache \in [StaticPaths -> Objects \cup {AbsentNode}] /\ \A p \in StaticPaths : cache[p].meta.kind # "dir"
  BY <1>3, Zenon DEF StaticInit
<1>5. changes \in Nat
  BY Zenon DEF StaticInit
<1> QED
  BY <1>1, <1>2, <1>4, <1>5, Zenon DEF StaticInv, DiskOk

(* The locals when a reply is given. *)
LEMMA RepliesLocals ==
  ASSUME Shaped(call), NEW reply, reply = [k \in ReplyFields |-> reply[k]], Replies(reply)
  PROVE  /\ Shaped(call') /\ call'.pc = "done" /\ call'.reply = reply
         /\ call'.req = call.req /\ call'.conf = call.conf /\ call'.torn = call.torn /\ call'.path = call.path
<1>1. call' = [call EXCEPT !.pc = "done", !.reply = reply]
  BY Zenon DEF Replies
<1> QED
  BY <1>1, Zenon DEF Shaped, CallFields

(* A request that ends with a listing, or with an error other than 500. *)
LEMMA EndsWithoutFile ==
  ASSUME Shaped(call), Placed(call), NEW reply, reply = [k \in ReplyFields |-> reply[k]],
         reply.status # 500, reply.of = NoMeta, Replies(reply), NEW versions
  PROVE  CallOk(call', versions)
<1>1. /\ Shaped(call') /\ call'.pc = "done" /\ call'.reply = reply
      /\ call'.req = call.req /\ call'.conf = call.conf /\ call'.torn = call.torn /\ call'.path = call.path
  BY RepliesLocals, Zenon
<1>2. Placed(call')
  BY <1>1 DEF Placed
<1>3. Answering(call', versions) /\ Reading(call', versions) /\ Served(call', versions)
  BY <1>1, Zenon DEF Answering, Reading, Served
<1> QED
  BY <1>1, <1>2, <1>3, Zenon DEF CallOk

LEMMA FailedReply ==
  \A status : /\ Failed(status) = [k \in ReplyFields |-> Failed(status)[k]]
              /\ Failed(status).status = status /\ Failed(status).of = NoMeta
  BY Zenon DEF Failed, ReplyFields

LEMMA Fails ==
  ASSUME Shaped(call), Placed(call), NEW status, status # 500, Replies(Failed(status)), NEW versions
  PROVE  CallOk(call', versions)
  BY FailedReply, EndsWithoutFile, ZenonT(30)

(* What fetch_or_load returns, and leaves in the cache. *)
Sound(kept) ==
  /\ kept \in [StaticPaths -> Objects \cup {AbsentNode}]
  /\ \A p \in StaticPaths : kept[p].meta.kind = "dir" => p \in DirPaths

LEMMA LoadOk ==
  ASSUME DiskOk, NEW p \in StaticPaths
  PROVE  load_blocking(p) \in Objects /\ (load_blocking(p).meta.kind = "dir" => p \in DirPaths)
<1>1. disk[p] \in Nodes
  BY Zenon DEF DiskOk
<1> QED
  BY <1>1, Zenon DEF DiskOk, load_blocking, Objects, Nodes

LEMMA InsertOk ==
  ASSUME NEW kept, Sound(kept), NEW p \in StaticPaths, NEW o \in Objects \cup {AbsentNode},
         o.meta.kind = "dir" => p \in DirPaths
  PROVE  Sound([kept EXCEPT ![p] = o])
  BY Zenon DEF Sound

LEMMA FetchOk ==
  ASSUME DiskOk, NEW kept, Sound(kept), NEW absent, NEW p \in StaticPaths
  PROVE  LET got == fetch_or_load(p, kept, absent)
         IN  /\ Sound(got.cache)
             /\ got.err \in {"ok", "not_found", "denied"}
             /\ got.err = "ok" => got.object \in Objects /\ (got.object.meta.kind = "dir" => p \in DirPaths)
<1> DEFINE got == fetch_or_load(p, kept, absent)
<1>1. IoError(p) \in {"ok", "not_found", "denied"}
  BY Zenon DEF IoError
<1>2. load_blocking(p) \in Objects /\ (load_blocking(p).meta.kind = "dir" => p \in DirPaths)
  BY LoadOk, Zenon
<1>3. CASE p \in absent
  BY <1>3, Zenon DEF fetch_or_load
<1>4. CASE p \notin absent /\ kept[p] # AbsentNode
  <2>1. got.err = "ok" /\ got.object = kept[p] /\ got.cache = kept
    BY <1>4, Zenon DEF fetch_or_load
  <2>2. kept[p] \in Objects /\ (kept[p].meta.kind = "dir" => p \in DirPaths)
    BY <1>4, Zenon DEF Sound
  <2> QED
    BY <2>1, <2>2, Zenon
<1>5. CASE p \notin absent /\ kept[p] = AbsentNode
  <2>1. /\ got.err = IoError(p) /\ got.object = load_blocking(p)
        /\ got.cache = IF IoError(p) = "ok" THEN [kept EXCEPT ![p] = load_blocking(p)] ELSE kept
    BY <1>5, Zenon DEF fetch_or_load
  <2>2. Sound([kept EXCEPT ![p] = load_blocking(p)])
    BY <1>2, InsertOk, Zenon
  <2> QED
    BY <1>1, <1>2, <2>1, <2>2, Zenon
<1> QED
  BY <1>3, <1>4, <1>5, Zenon

LEMMA FromIoIsNot500 == \A err \in {"not_found", "denied", "loop"} : from_io(err) # 500
  BY DEF from_io

LEMMA SoundCache == DiskOk => Sound(cache)
  BY Zenon DEF DiskOk, Sound

LEMMA EmptyEntry == AbsentNode.meta.kind = "absent"
  BY Zenon DEF AbsentNode, NoMeta

(* A step that only loads into the cache keeps what is known of the disk. *)
LEMMA CacheStep == ASSUME DiskOk, UNCHANGED <<disk, changes>>, Sound(cache') PROVE DiskOk'
  BY Zenon DEF DiskOk, Sound

-----------------------------------------------------------------------------
(* The steps of a request. *)
LEMMA ResolveOutcome == \A segments, dotfiles : resolve_path(segments, dotfiles).err \in {"ok", "malformed", "hidden"}
<1>1. \A seg, dotfiles : check_segment(seg, dotfiles) \in {"ok", "malformed", "hidden"}
  BY Zenon DEF check_segment
<1> QED
  BY <1>1, Zenon DEF resolve_path

LEMMA ServeStep ==
  ASSUME StaticInv, NEW r \in DOMAIN Requests, NEW c \in DOMAIN Configs, Serve(r, c)
  PROVE  StaticInv'
<1> DEFINE mapped == resolve_path(Requests[r].segments, "DOTFILES" \in Configs[c].flags)
           New(pc, reply, path) == [pc |-> pc, req |-> r, conf |-> c, path |-> path, object |-> AbsentNode, index |-> 1,
                                    reloaded |-> FALSE, handle |-> NoMeta, reply |-> reply, left |-> 0, torn |-> FALSE]
<1>1. DiskOk' /\ Current'
  BY Zenon DEF StaticInv, Serve, DiskOk, Current
<1>2. mapped.err \in {"ok", "malformed", "hidden"}
  BY ResolveOutcome, Zenon
<1>3. mapped.err = "ok" => mapped.path \in StaticPaths
  <2>1. \A d \in BOOLEAN : resolve_path(Requests[r].segments, d).err = "ok" => resolve_path(Requests[r].segments, d).path \in StaticPaths
    BY StaticAssumption, Zenon
  <2>2. ("DOTFILES" \in Configs[c].flags) \in BOOLEAN
    OBVIOUS
  <2> QED
    BY <2>1, <2>2, Zenon
<1> HIDE DEF mapped
<1>4. \A status : \A path \in StaticPaths : status # 500 => CallOk(New("done", Failed(status), path), Versions')
  <2> SUFFICES ASSUME NEW status, NEW path \in StaticPaths, status # 500 PROVE CallOk(New("done", Failed(status), path), Versions')
    BY Zenon
  <2>1. Failed(status) = [k \in ReplyFields |-> Failed(status)[k]] /\ Failed(status).status = status /\ Failed(status).of = NoMeta
    BY FailedReply, Zenon
  <2> DEFINE d == New("done", Failed(status), path)
  <2>2. Shaped(d)
    BY <2>1, ZenonT(30) DEF Shaped, CallFields
  <2>3. d.pc = "done" /\ d.reply = Failed(status) /\ d.req = r /\ d.conf = c /\ d.torn = FALSE /\ d.path = path
    BY ZenonT(30)
  <2> HIDE DEF d
  <2>4. Placed(d)
    BY <2>3, Zenon DEF Placed
  <2>5. Answering(d, Versions') /\ Reading(d, Versions') /\ Served(d, Versions')
    BY <2>1, <2>3 DEF Answering, Reading, Served
  <2> QED
    BY <2>2, <2>4, <2>5, Zenon DEF CallOk, d
<1>5. ASSUME NEW path \in StaticPaths PROVE CallOk(New("lookup", Failed(0), path), Versions')
  <2>1. Failed(0) = [k \in ReplyFields |-> Failed(0)[k]]
    BY FailedReply, Zenon
  <2> DEFINE d == New("lookup", Failed(0), path)
  <2>2. Shaped(d)
    BY <2>1, Zenon DEF Shaped, CallFields
  <2>3. d.pc = "lookup" /\ d.req = r /\ d.conf = c /\ d.torn = FALSE /\ d.path = path /\ d.index = 1
    BY Zenon
  <2> HIDE DEF d
  <2>4. Placed(d)
    <3>1. d.index \in Nat \ {0}
      BY <2>3
    <3> QED
      BY <2>3, <3>1, Zenon DEF Placed
  <2>5. Answering(d, Versions') /\ Reading(d, Versions') /\ Served(d, Versions')
    BY <2>3, Zenon DEF Answering, Reading, Served
  <2> QED
    BY <2>2, <2>4, <2>5, Zenon DEF CallOk, d
<1> HIDE DEF New
<1>6. call' = CASE mapped.err = "malformed" -> New("done", Failed(400), Root)
                [] mapped.err = "hidden" -> New("done", Failed(403), Root)
                [] mapped.err = "ok" /\ mapped.path # Root /\ mapped.path \in Configs[c].skip -> New("done", Failed(403), mapped.path)
                [] OTHER -> New("lookup", Failed(0), mapped.path)
  BY Zenon DEF Serve, mapped, New
<1>7. CallOk(call', Versions')
  <2>1. Root \in StaticPaths
    BY StaticAssumption, Zenon
  <2> QED
    BY <1>2, <1>3, <1>4, <1>5, <1>6, <2>1
<1> QED
  BY <1>1, <1>7, Zenon DEF StaticInv

(* Up to the open nothing is answered yet. *)
LEMMA Underway ==
  ASSUME NEW c, Shaped(c), Placed(c), c.pc \in {"lookup", "entry", "index", "confine", "open", "reload"}, NEW versions
  PROVE  CallOk(c, versions)
  BY Zenon DEF CallOk, Answering, Reading, Served

LEMMA OpensOk ==
  ASSUME Shaped(call), Placed(call), NEW object \in Objects, NEW rel \in StaticPaths, Opens(object, rel), NEW versions
  PROVE  CallOk(call', versions)
<1>1. CASE object.meta.kind = "file"
  <2>1. call' = [call EXCEPT !.pc = "open", !.path = rel, !.object = object]
    BY <1>1, Zenon DEF Opens
  <2>2. Shaped(call')
    BY <2>1, Zenon DEF Shaped, CallFields
  <2>3. /\ call'.pc = "open" /\ call'.path = rel /\ call'.object = object
        /\ call'.req = call.req /\ call'.conf = call.conf /\ call'.torn = call.torn
    BY <2>1, Zenon DEF Shaped, CallFields
  <2>4. Placed(call')
    BY <1>1, <2>3, Zenon DEF Placed
  <2> QED
    BY <2>2, <2>3, <2>4, Underway, Zenon
<1>2. CASE object.meta.kind # "file"
  BY <1>2, Fails DEF Opens
<1> QED
  BY <1>1, <1>2, Zenon

LEMMA LookupStep == ASSUME StaticInv, Lookup PROVE StaticInv'
<1> DEFINE got == fetch_or_load(call.path, cache, misses)
<1>1. call.pc = "lookup" /\ DiskOk /\ Current /\ Shaped(call) /\ Placed(call)
  BY Zenon DEF StaticInv, CallOk, Lookup
<1>2. call.path \in StaticPaths
  BY <1>1, Zenon DEF Placed
<1>3. /\ Sound(got.cache)
      /\ got.err \in {"ok", "not_found", "denied"}
      /\ got.err = "ok" => got.object \in Objects /\ (got.object.meta.kind = "dir" => call.path \in DirPaths)
  BY <1>1, <1>2, SoundCache, FetchOk, Zenon
<1> HIDE DEF got
<1>4. DiskOk' /\ Current'
  <2>1. UNCHANGED <<disk, changes, seen>> /\ cache' = got.cache
    BY Zenon DEF Lookup, got
  <2> QED
    BY <1>1, <1>3, <2>1, CacheStep, Zenon DEF Current
<1>5. \/ got.err # "ok" /\ Replies(Failed(from_io(got.err)))
      \/ got.err = "ok" /\ call' = [call EXCEPT !.pc = "entry", !.object = got.object]
  BY Zenon DEF Lookup, got
<1>6. CASE got.err # "ok" /\ Replies(Failed(from_io(got.err)))
  <2>1. CallOk(call', Versions')
    BY <1>1, <1>3, <1>6, Fails, FromIoIsNot500
  <2> QED
    BY <1>4, <2>1, Zenon DEF StaticInv
<1>7. CASE got.err = "ok" /\ call' = [call EXCEPT !.pc = "entry", !.object = got.object]
  <2>1. Shaped(call')
    BY <1>1, <1>7, Zenon DEF Shaped, CallFields
  <2>2. /\ call'.pc = "entry" /\ call'.path = call.path /\ call'.index = call.index /\ call'.object = got.object
        /\ call'.req = call.req /\ call'.conf = call.conf /\ call'.torn = call.torn
    BY <1>1, <1>7, Zenon DEF Shaped, CallFields
  <2>3. Placed(call')
    BY <1>1, <1>2, <1>3, <1>7, <2>2, Zenon DEF Placed
  <2>4. CallOk(call', Versions')
    BY <2>1, <2>2, <2>3, Underway, Zenon
  <2> QED
    BY <1>4, <2>4, Zenon DEF StaticInv
<1> QED
  BY <1>5, <1>6, <1>7, Zenon

(* The object that check_confined lets pass. *)
LEMMA AdmitsOk ==
  ASSUME Shaped(call), Placed(call), call.pc \in {"entry", "confine"}, Admits, NEW versions
  PROVE  CallOk(call', versions)
<1>1. call.path \in StaticPaths /\ call.object \in Objects
  BY Zenon DEF Placed
<1>2. \/ call.pc = "entry" /\ call.object.meta.kind = "dir" /\ call' = [call EXCEPT !.pc = "index"]
      \/ Replies(Failed(403))
      \/ Opens(call.object, call.path)
  BY Zenon DEF Admits
<1>3. CASE call.pc = "entry" /\ call.object.meta.kind = "dir" /\ call' = [call EXCEPT !.pc = "index"]
  <2>1. Shaped(call')
    BY <1>3, Zenon DEF Shaped, CallFields
  <2>2. /\ call'.pc = "index" /\ call'.path = call.path /\ call'.index = call.index
        /\ call'.req = call.req /\ call'.conf = call.conf /\ call'.torn = call.torn
    BY <1>3, Zenon DEF Shaped, CallFields
  <2>3. Placed(call')
    BY <1>1, <1>3, <2>2, Zenon DEF Placed
  <2> QED
    BY <2>1, <2>2, <2>3, Underway, Zenon
<1>4. CASE Replies(Failed(403))
  BY <1>4, Fails
<1>5. CASE Opens(call.object, call.path)
  BY <1>1, <1>5, OpensOk, Zenon
<1> QED
  BY <1>2, <1>3, <1>4, <1>5, Zenon

LEMMA ConfineStep == ASSUME StaticInv, Confine PROVE StaticInv'
<1> DEFINE root == fetch_or_load(Root, cache, misses)
<1>1. call.pc \in {"entry", "confine"} /\ DiskOk /\ Current /\ Shaped(call) /\ Placed(call)
  BY Zenon DEF StaticInv, CallOk, Confine
<1>2. Sound(root.cache) /\ root.err \in {"ok", "not_found", "denied"}
  BY <1>1, StaticAssumption, SoundCache, FetchOk, Zenon
<1>3. UNCHANGED <<disk, changes, seen>> /\ (cache' = cache \/ cache' = root.cache)
  BY Zenon DEF Confine
<1>4. Admits \/ Replies(Failed(403)) \/ (root.err # "ok" /\ Replies(Failed(from_io(root.err))))
  BY Zenon DEF Confine
<1> HIDE DEF root
<1>5. DiskOk' /\ Current'
  BY <1>1, <1>2, <1>3, SoundCache, CacheStep, Zenon DEF Current
<1>6. CASE Admits
  BY <1>1, <1>5, <1>6, AdmitsOk, Zenon DEF StaticInv
<1>7. CASE Replies(Failed(403))
  <2>1. CallOk(call', Versions')
    BY <1>1, <1>7, Fails
  <2> QED
    BY <1>5, <2>1, Zenon DEF StaticInv
<1>8. CASE root.err # "ok" /\ Replies(Failed(from_io(root.err)))
  <2>1. CallOk(call', Versions')
    BY <1>1, <1>2, <1>8, Fails, FromIoIsNot500
  <2> QED
    BY <1>5, <2>1, Zenon DEF StaticInv
<1> QED
  BY <1>4, <1>6, <1>7, <1>8, Zenon

LEMMA IndexStep == ASSUME StaticInv, Index PROVE StaticInv'
<1> DEFINE candidate == Append(call.path, Conf.indexes[call.index])
           got == fetch_or_load(candidate, cache, misses)
           tried == "INDEX_FILES" \in Conf.flags /\ call.index <= Len(Conf.indexes)
<1>1. call.pc = "index" /\ DiskOk /\ Current /\ Shaped(call) /\ Placed(call)
  BY Zenon DEF StaticInv, CallOk, Index
<1>2. call.path \in DirPaths /\ call.index \in Nat \ {0} /\ call.conf \in DOMAIN Configs
  BY <1>1, Zenon DEF Placed
<1>3. CASE tried
  <2>1. candidate \in StaticPaths
    BY <1>2, <1>3, StaticAssumption DEF Conf
  <2>2. /\ Sound(got.cache)
        /\ got.err = "ok" => got.object \in Objects
    BY <1>1, <2>1, SoundCache, FetchOk, Zenon
  <2>3. UNCHANGED <<disk, changes, seen>> /\ cache' = got.cache
    BY <1>3, Zenon DEF Index
  <2>4. \/ /\ got.err = "ok" /\ got.object.meta.kind # "dir"
           /\ call' = [call EXCEPT !.pc = "confine", !.path = candidate, !.object = got.object]
        \/ call' = [call EXCEPT !.index = @ + 1]
    BY <1>3, Zenon DEF Index
  <2> HIDE DEF got, candidate, tried
  <2>5. DiskOk' /\ Current'
    BY <1>1, <2>2, <2>3, CacheStep, Zenon DEF Current
  <2>6. CASE /\ got.err = "ok" /\ got.object.meta.kind # "dir"
             /\ call' = [call EXCEPT !.pc = "confine", !.path = candidate, !.object = got.object]
    <3>1. Shaped(call')
      BY <1>1, <2>6, Zenon DEF Shaped, CallFields
    <3>2. /\ call'.pc = "confine" /\ call'.path = candidate /\ call'.object = got.object
          /\ call'.req = call.req /\ call'.conf = call.conf /\ call'.torn = call.torn
      BY <1>1, <2>6, Zenon DEF Shaped, CallFields
    <3>3. Placed(call')
      BY <1>1, <2>1, <2>2, <2>6, <3>2, Zenon DEF Placed
    <3>4. CallOk(call', Versions')
      BY <3>1, <3>2, <3>3, Underway, Zenon
    <3> QED
      BY <2>5, <3>4, Zenon DEF StaticInv
  <2>8. CASE call' = [call EXCEPT !.index = @ + 1]
    <3>1. Shaped(call')
      BY <1>1, <2>8, Zenon DEF Shaped, CallFields
    <3>2. /\ call'.pc = "index" /\ call'.path = call.path /\ call'.index = call.index + 1
          /\ call'.req = call.req /\ call'.conf = call.conf /\ call'.torn = call.torn
      BY <1>1, <2>8, Zenon DEF Shaped, CallFields
    <3>3. call'.index \in Nat \ {0}
      BY <1>2, <3>2
    <3>4. Placed(call')
      BY <1>1, <1>2, <3>2, <3>3, Zenon DEF Placed
    <3>5. CallOk(call', Versions')
      BY <3>1, <3>2, <3>4, Underway, Zenon
    <3> QED
      BY <2>5, <3>5, Zenon DEF StaticInv
  <2> QED
    BY <2>4, <2>6, <2>8, Zenon
<1>4. CASE ~tried
  <2> DEFINE listing == [Failed(200) EXCEPT !.security = Conf.security, !.body = render(call.path)]
  <2>1. UNCHANGED <<disk, changes, seen, cache>> /\ (Replies(listing) \/ Replies(Failed(403)))
    BY <1>4, Zenon DEF Index
  <2>2. DiskOk' /\ Current'
    BY <1>1, <2>1, Zenon DEF DiskOk, Current
  <2>3. listing = [k \in ReplyFields |-> listing[k]] /\ listing.status = 200 /\ listing.of = NoMeta
    BY ZenonT(30) DEF Failed, ReplyFields
  <2> HIDE DEF listing
  <2>4. CallOk(call', Versions')
    BY <1>1, <2>1, <2>3, Fails, EndsWithoutFile
  <2> QED
    BY <2>2, <2>4, Zenon DEF StaticInv
<1> QED
  BY <1>3, <1>4, Zenon

(* An open that gives a file gives the one at the path. *)
LEMMA OpenedFile ==
  ASSUME DiskOk, NEW p \in StaticPaths
  PROVE  /\ Opened(p).err \in {"ok", "not_found", "denied", "loop"}
         /\ Opened(p).err = "ok" /\ Opened(p).meta.kind = "file" => Opened(p).meta = disk[p].meta
<1>1. IoError(p) \in {"ok", "not_found", "denied"}
  BY Zenon DEF IoError
<1>2. disk[p].meta \in Metas
  BY Zenon DEF DiskOk, Nodes
<1>3. [disk[p].meta EXCEPT !.kind = "link", !.id = -disk[p].meta.id].kind = "link"
  BY <1>2, Zenon DEF Metas
<1>4. \/ Opened(p) = [err |-> IoError(p), meta |-> NoMeta] /\ IoError(p) # "ok"
      \/ Opened(p) = [err |-> "ok", meta |-> [disk[p].meta EXCEPT !.kind = "link", !.id = -disk[p].meta.id]]
      \/ Opened(p) = [err |-> "loop", meta |-> NoMeta]
      \/ Opened(p) = [err |-> "ok", meta |-> disk[p].meta]
  BY Zenon DEF Opened
<1> HIDE DEF IoError
<1>5. CASE Opened(p) = [err |-> IoError(p), meta |-> NoMeta] /\ IoError(p) # "ok"
  BY <1>1, <1>5
<1>6. CASE Opened(p) = [err |-> "ok", meta |-> [disk[p].meta EXCEPT !.kind = "link", !.id = -disk[p].meta.id]]
  <2>1. Opened(p).err = "ok" /\ Opened(p).meta = [disk[p].meta EXCEPT !.kind = "link", !.id = -disk[p].meta.id]
    BY <1>6
  <2> QED
    BY <1>3, <2>1, Zenon
<1>7. CASE Opened(p) = [err |-> "loop", meta |-> NoMeta]
  BY <1>7
<1>8. CASE Opened(p) = [err |-> "ok", meta |-> disk[p].meta]
  BY <1>8
<1> QED
  BY <1>4, <1>5, <1>6, <1>7, <1>8, Zenon

LEMMA OpenStep == ASSUME StaticInv, Open PROVE StaticInv'
<1> DEFINE got == Opened(call.path)
<1>1. call.pc = "open" /\ DiskOk /\ Current /\ Shaped(call) /\ Placed(call)
  BY Zenon DEF StaticInv, CallOk, Open
<1>2. call.path \in StaticPaths /\ call.object \in Objects /\ call.object.meta.kind = "file"
  BY <1>1, Zenon DEF Placed
<1>3. /\ got.err \in {"ok", "not_found", "denied", "loop"}
      /\ got.err = "ok" /\ got.meta.kind = "file" => got.meta = disk[call.path].meta
  BY <1>1, <1>2, OpenedFile, Zenon
<1>4. disk[call.path].meta \in Metas /\ disk[call.path].meta \in Versions
  BY <1>1, <1>2, Zenon DEF DiskOk, Nodes, Current, Versions
<1>5. DiskOk' /\ Current' /\ seen' = seen
  BY <1>1, Zenon DEF Open, DiskOk, Current
<1>6. \/ got.err # "ok" /\ Replies(Failed(from_io(got.err)))
      \/ Replies(Failed(403))
      \/ got.err = "ok" /\ call.object.meta = got.meta /\ call' = [call EXCEPT !.pc = "respond", !.handle = got.meta]
      \/ call' = [call EXCEPT !.pc = "reload"]
      \/ /\ got.err = "ok" /\ got.meta.kind = "file"
         /\ call' = [call EXCEPT !.pc = "respond", !.handle = got.meta, !.object = [call.object EXCEPT !.meta = got.meta]]
  BY Zenon DEF Open, is_same_file
<1> HIDE DEF got
<1>7. CASE got.err # "ok" /\ Replies(Failed(from_io(got.err)))
  <2>1. CallOk(call', Versions')
    BY <1>1, <1>3, <1>7, Fails, FromIoIsNot500
  <2> QED
    BY <1>5, <2>1, Zenon DEF StaticInv
<1>8. CASE Replies(Failed(403))
  <2>1. CallOk(call', Versions')
    BY <1>1, <1>8, Fails
  <2> QED
    BY <1>5, <2>1, Zenon DEF StaticInv
<1>9. CASE call' = [call EXCEPT !.pc = "reload"]
  <2>1. Shaped(call')
    BY <1>1, <1>9, Zenon DEF Shaped, CallFields
  <2>2. /\ call'.pc = "reload" /\ call'.path = call.path /\ call'.object = call.object
        /\ call'.req = call.req /\ call'.conf = call.conf /\ call'.torn = call.torn
    BY <1>1, <1>9, Zenon DEF Shaped, CallFields
  <2>3. Placed(call')
    BY <1>1, <1>2, <2>2, Zenon DEF Placed
  <2>4. CallOk(call', Versions')
    BY <2>1, <2>2, <2>3, Underway, Zenon
  <2> QED
    BY <1>5, <2>4, Zenon DEF StaticInv
<1>10. ASSUME NEW object \in Objects, object.meta.kind = "file", object.meta \in Versions,
              Shaped(call'),
              call'.pc = "respond" /\ call'.path = call.path /\ call'.object = object /\ call'.handle = object.meta,
              call'.req = call.req /\ call'.conf = call.conf /\ call'.torn = call.torn
       PROVE  StaticInv'
  <2>1. Placed(call')
    BY <1>1, <1>2, <1>10, Zenon DEF Placed
  <2>2. Answering(call', Versions') /\ Reading(call', Versions') /\ Served(call', Versions')
    <3>1. Versions' = Versions
      BY <1>5, <1>10, Zenon DEF Versions
    <3> QED
      BY <1>10, <3>1, Zenon DEF Answering, Reading, Served
  <2> QED
    BY <1>5, <1>10, <2>1, <2>2, Zenon DEF StaticInv, CallOk
<1>11. CASE got.err = "ok" /\ call.object.meta = got.meta /\ call' = [call EXCEPT !.pc = "respond", !.handle = got.meta]
  <2>1. Shaped(call')
    BY <1>1, <1>11, Zenon DEF Shaped, CallFields
  <2>2. /\ call'.pc = "respond" /\ call'.path = call.path /\ call'.object = call.object /\ call'.handle = call.object.meta
        /\ call'.req = call.req /\ call'.conf = call.conf /\ call'.torn = call.torn
    BY <1>1, <1>11, Zenon DEF Shaped, CallFields
  <2>3. call.object.meta \in Versions
    BY <1>2, <1>3, <1>4, <1>11, Zenon
  <2> QED
    BY <1>2, <1>10, <2>1, <2>2, <2>3, Zenon
<1>12. CASE /\ got.err = "ok" /\ got.meta.kind = "file"
            /\ call' = [call EXCEPT !.pc = "respond", !.handle = got.meta, !.object = [call.object EXCEPT !.meta = got.meta]]
  <2> DEFINE object == [call.object EXCEPT !.meta = got.meta]
  <2>1. got.meta \in Metas /\ got.meta \in Versions
    BY <1>3, <1>4, <1>12, Zenon
  <2>2. object \in Objects /\ object.meta = got.meta
    BY <1>2, <2>1, Zenon DEF Objects
  <2>3. Shaped(call')
    BY <1>1, <1>12, Zenon DEF Shaped, CallFields
  <2>4. /\ call'.pc = "respond" /\ call'.path = call.path /\ call'.object = object /\ call'.handle = got.meta
        /\ call'.req = call.req /\ call'.conf = call.conf /\ call'.torn = call.torn
    BY <1>1, <1>12, Zenon DEF Shaped, CallFields
  <2> HIDE DEF object
  <2> QED
    BY <1>10, <1>12, <2>1, <2>2, <2>3, <2>4, Zenon
<1> QED
  BY <1>6, <1>7, <1>8, <1>9, <1>11, <1>12, Zenon

LEMMA ReloadStep == ASSUME StaticInv, Reload PROVE StaticInv'
<1> DEFINE kept == invalidate(call.path, cache)
           got == fetch_or_load(call.path, kept, misses \ {call.path})
<1>1. call.pc = "reload" /\ DiskOk /\ Current /\ Shaped(call) /\ Placed(call)
  BY Zenon DEF StaticInv, CallOk, Reload
<1>2. call.path \in StaticPaths
  BY <1>1, Zenon DEF Placed
<1>3. Sound(kept)
  BY <1>1, <1>2, SoundCache, InsertOk, EmptyEntry, Zenon DEF invalidate
<1> HIDE DEF kept
<1>4. /\ Sound(got.cache)
      /\ got.err \in {"ok", "not_found", "denied"}
      /\ got.err = "ok" => got.object \in Objects
  BY <1>1, <1>2, <1>3, FetchOk, Zenon
<1>5. UNCHANGED <<disk, changes, seen>> /\ cache' = got.cache
  BY Zenon DEF Reload, kept
<1>6. \/ got.err # "ok" /\ Replies(Failed(from_io(got.err)))
      \/ Replies(Failed(404))
      \/ /\ got.err = "ok" /\ got.object.meta.kind # "dir"
         /\ call' = [call EXCEPT !.pc = "confine", !.object = got.object, !.reloaded = TRUE]
  BY Zenon DEF Reload, kept
<1> HIDE DEF got
<1>7. DiskOk' /\ Current'
  BY <1>1, <1>4, <1>5, CacheStep, Zenon DEF Current
<1>8. CASE got.err # "ok" /\ Replies(Failed(from_io(got.err)))
  <2>1. CallOk(call', Versions')
    BY <1>1, <1>4, <1>8, Fails, FromIoIsNot500
  <2> QED
    BY <1>7, <2>1, Zenon DEF StaticInv
<1>9. CASE Replies(Failed(404))
  <2>1. CallOk(call', Versions')
    BY <1>1, <1>9, Fails
  <2> QED
    BY <1>7, <2>1, Zenon DEF StaticInv
<1>10. CASE /\ got.err = "ok" /\ got.object.meta.kind # "dir"
            /\ call' = [call EXCEPT !.pc = "confine", !.object = got.object, !.reloaded = TRUE]
  <2>1. Shaped(call')
    BY <1>1, <1>10, Zenon DEF Shaped, CallFields
  <2>2. /\ call'.pc = "confine" /\ call'.path = call.path /\ call'.object = got.object
        /\ call'.req = call.req /\ call'.conf = call.conf /\ call'.torn = call.torn
    BY <1>1, <1>10, Zenon DEF Shaped, CallFields
  <2>3. Placed(call')
    BY <1>1, <1>2, <1>4, <1>10, <2>2, Zenon DEF Placed
  <2>4. CallOk(call', Versions')
    BY <2>1, <2>2, <2>3, Underway, Zenon
  <2> QED
    BY <1>7, <2>4, Zenon DEF StaticInv
<1> QED
  BY <1>6, <1>8, <1>9, <1>10, ZenonT(30)

(* A range that is served lies in the file and is the one asked for. *)
LEMMA ParsedOk ==
  ASSUME NEW header, NEW size, parse_ranges(header, size)[1] = "ok", DOMAIN parse_ranges(header, size)[2] # {}
  PROVE  LET found == SpecsThatAre("some", header, size)
             ranges == parse_ranges(header, size)[2]
         IN  DOMAIN ranges = found /\ \A i \in found : ranges[i] = RangeOf(header.specs[i], size)
<1>1. DOMAIN <<>> = {}
  OBVIOUS
<1>2. parse_ranges(header, size) # <<"ok", <<>>>>
  BY <1>1
<1>3. parse_ranges(header, size) = <<"ok", [i \in SpecsThatAre("some", header, size) |-> RangeOf(header.specs[i], size)]>>
  BY <1>2, Zenon DEF parse_ranges
<1> QED
  BY <1>3

LEMMA SelectedOk ==
  ASSUME call.req \in DOMAIN Requests, NEW meta \in Metas
  PROVE  LET chosen == Selected(meta)
             r == chosen[2]
         IN  /\ chosen[1] \in {"all", "part", "refused"}
             /\ chosen[1] = "part" => /\ r \in [start : Nat, length : Nat]
                                     /\ r.start + r.length <= meta.size
                                     /\ Asked(Req.range, meta.size) = r.start .. r.start + r.length - 1
<1> DEFINE parsed == parse_ranges(Req.range, meta.size)
           places == DOMAIN parsed[2]
           first == parsed[2][Min(places)]
           chosen == Selected(meta)
<1>1. meta.size \in Nat /\ Req.range.specs \in Seq(Specs)
  BY StaticAssumption, Zenon DEF Metas, Req
<1>2. \/ chosen[1] \in {"all", "refused"}
      \/ chosen = <<"part", first>> /\ parsed[1] = "ok" /\ places # {}
  BY Zenon DEF Selected
<1>3. CASE chosen = <<"part", first>> /\ parsed[1] = "ok" /\ places # {}
  <2> DEFINE found == SpecsThatAre("some", Req.range, meta.size)
  <2>1. places = found /\ \A i \in found : parsed[2][i] = RangeOf(Req.range.specs[i], meta.size)
    BY <1>3, ParsedOk, Zenon
  <2>2. found \subseteq Nat /\ found # {}
    BY <1>1, <1>3, <2>1 DEF SpecsThatAre
  <2>3. first = RangeOf(Req.range.specs[Min(found)], meta.size)
    BY <2>1, <2>2, MinIsMember, Zenon
  <2>4. /\ first \in [start : Nat, length : Nat]
        /\ first.start + first.length <= meta.size
        /\ Asked(Req.range, meta.size) = first.start .. first.start + first.length - 1
    <3>1. AsAsked(RangeOf(Req.range.specs[Min(found)], meta.size), Req.range, meta.size)
      BY <1>1, <2>2, AskedIsFirst, Zenon
    <3> HIDE DEF first, found
    <3>2. AsAsked(first, Req.range, meta.size)
      BY <2>3, <3>1, Zenon
    <3> QED
      BY <3>2, Zenon DEF AsAsked
  <2> HIDE DEF first, parsed, places, chosen
  <2>5. chosen[1] = "part" /\ chosen[2] = first
    BY <1>3, Zenon
  <2> QED
    BY <2>4, <2>5, Zenon DEF chosen
<1> QED
  BY <1>2, <1>3, Zenon

LEMMA IntervalSize ==
  ASSUME NEW start \in Nat, NEW length \in Nat
  PROVE  Cardinality(start .. start + length - 1) = length
  BY FS_Interval

LEMMA WholeFile == ASSUME NEW size \in Nat PROVE Cardinality(0 .. size - 1) = size
  BY FS_Interval

LEMMA NoBytes == \A id, from : FileBytes(id, from, 0) = <<>>
  BY DEF FileBytes

(* Replies about a file, and with the security headers. *)
LEMMA AboutFile ==
  ASSUME NEW status, NEW meta
  PROVE  LET q == [Failed(status) EXCEPT !.of = meta]
         IN  q = [k \in ReplyFields |-> q[k]] /\ q.status = status /\ q.of = meta
  BY Zenon DEF Failed, ReplyFields

LEMMA OfRange ==
  ASSUME NEW status, NEW meta, NEW range
  PROVE  LET q == [Failed(status) EXCEPT !.of = meta, !.range = range]
         IN  q = [k \in ReplyFields |-> q[k]] /\ q.status = status /\ q.of = meta /\ q.range = range /\ q.body = <<>>
  BY Zenon DEF Failed, ReplyFields

LEMMA WithSecurity ==
  ASSUME NEW q, q = [k \in ReplyFields |-> q[k]]
  PROVE  LET h == apply_security_headers(q)
         IN  /\ h = [k \in ReplyFields |-> h[k]]
             /\ h.status = q.status /\ h.of = q.of /\ h.range = q.range /\ h.body = q.body
  BY Zenon DEF apply_security_headers, ReplyFields

(* The path is settled when the answer is begun. *)
LEMMA PathSettled ==
  ASSUME Shaped(call), Respond \/ Read
  PROVE  call'.path = call.path /\ Versions' = Versions
<1>1. ASSUME NEW reply, Replies(reply) PROVE call'.path = call.path
  BY <1>1, Zenon DEF Replies, Shaped, CallFields
<1>2. CASE Respond
  <2> DEFINE meta == call.object.meta
             chosen == Selected(meta)
             range == IF chosen[1] = "part" THEN chosen[2] ELSE [start |-> 0, length |-> meta.size]
             reply == apply_security_headers(
                        [Failed(IF chosen[1] = "part" THEN 206 ELSE 200) EXCEPT !.of = meta, !.range = range])
             unmodified == apply_security_headers([Failed(304) EXCEPT !.of = meta])
  <2>1. \/ Replies(unmodified)
        \/ Replies(range_not_satisfiable(meta))
        \/ Replies(reply)
        \/ call' = [call EXCEPT !.pc = "read", !.reply = reply, !.left = range.length]
    BY <1>2, Zenon DEF Respond
  <2> HIDE DEF meta, chosen, range, reply, unmodified
  <2>2. call'.path = call.path
    BY <1>1, <2>1, Zenon DEF Shaped, CallFields
  <2> QED
    BY <1>2, <2>2, Zenon DEF Respond, Versions
<1>3. CASE Read
  <2> DEFINE n == Min({call.left, READ_CHUNK})
             range == call.reply.range
             bytes == FileBytes(call.handle.id, range.start + range.length - call.left, n)
  <2>1. \/ call' = [call EXCEPT !.pc = "done"]
        \/ Replies(Failed(500))
        \/ call' = [call EXCEPT !.pc = "done", !.torn = TRUE]
        \/ call' = [call EXCEPT !.reply.body = @ \o bytes, !.left = @ - n]
    BY <1>3, Zenon DEF Read
  <2> HIDE DEF n, range, bytes
  <2>2. call'.path = call.path
    BY <1>1, <2>1, Zenon DEF Shaped, CallFields
  <2> QED
    BY <1>3, <2>2, Zenon DEF Read, Versions
<1> QED
  BY <1>2, <1>3, Zenon

LEMMA RespondStep == ASSUME StaticInv, Respond PROVE StaticInv'
<1> DEFINE meta == call.object.meta
           chosen == Selected(meta)
           range == IF chosen[1] = "part" THEN chosen[2] ELSE [start |-> 0, length |-> meta.size]
           status == IF chosen[1] = "part" THEN 206 ELSE 200
           reply == apply_security_headers([Failed(status) EXCEPT !.of = meta, !.range = range])
           unmodified == apply_security_headers([Failed(304) EXCEPT !.of = meta])
<1>1. call.pc = "respond" /\ DiskOk /\ Current /\ Shaped(call) /\ Placed(call) /\ Answering(call, Versions)
  BY Zenon DEF StaticInv, CallOk, Respond
<1>2. /\ meta \in Metas /\ meta.kind = "file" /\ meta \in Versions /\ call.path \in StaticPaths
      /\ call.req \in DOMAIN Requests /\ call.torn \in BOOLEAN
      /\ ~call.torn => call.handle = meta
  BY <1>1, Zenon DEF Placed, Answering, Objects
<1>3. DiskOk' /\ Current' /\ Versions' = Versions /\ call'.path = call.path
  BY <1>1, PathSettled, Zenon DEF Respond, DiskOk, Current
<1>4. \/ Replies(unmodified)
      \/ Replies(range_not_satisfiable(meta))
      \/ Req.head /\ Replies(reply)
      \/ ~Req.head /\ call' = [call EXCEPT !.pc = "read", !.reply = reply, !.left = range.length]
  BY Zenon DEF Respond
<1>5. /\ range \in [start : Nat, length : Nat]
      /\ range.start + range.length <= meta.size
      /\ IF status = 206 THEN Asked(Req.range, meta.size) = range.start .. range.start + range.length - 1
         ELSE range.start = 0 /\ range.length = meta.size
  <2>1. meta.size \in Nat
    BY <1>2, Zenon DEF Metas
  <2>2. CASE chosen[1] = "part"
    BY <1>2, <2>2, SelectedOk, Zenon
  <2>3. CASE chosen[1] # "part"
    BY <2>1, <2>3
  <2> QED
    BY <2>2, <2>3, Zenon
<1>6. status \in {200, 206}
  OBVIOUS
<1> HIDE DEF status, range, chosen, meta
<1>7. /\ reply = [k \in ReplyFields |-> reply[k]]
      /\ reply.status = status /\ reply.of = meta /\ reply.range = range /\ reply.body = <<>>
  <2> DEFINE plain == [Failed(status) EXCEPT !.of = meta, !.range = range]
  <2>1. /\ plain = [k \in ReplyFields |-> plain[k]]
        /\ plain.status = status /\ plain.of = meta /\ plain.range = range /\ plain.body = <<>>
    BY Zenon DEF Failed, ReplyFields
  <2> HIDE DEF plain
  <2>2. /\ apply_security_headers(plain) = [k \in ReplyFields |-> apply_security_headers(plain)[k]]
        /\ apply_security_headers(plain).status = plain.status /\ apply_security_headers(plain).of = plain.of
        /\ apply_security_headers(plain).range = plain.range /\ apply_security_headers(plain).body = plain.body
    BY <2>1, WithSecurity, Zenon
  <2>3. reply = apply_security_headers(plain)
    BY Zenon DEF plain
  <2> HIDE DEF reply
  <2> QED
    BY <2>1, <2>2, <2>3, Zenon
<1>8. unmodified = [k \in ReplyFields |-> unmodified[k]] /\ unmodified.status = 304 /\ unmodified.of = meta
  <2> DEFINE plain == [Failed(304) EXCEPT !.of = meta]
  <2>1. plain = [k \in ReplyFields |-> plain[k]] /\ plain.status = 304 /\ plain.of = meta
    BY AboutFile
  <2> HIDE DEF plain
  <2>2. /\ apply_security_headers(plain) = [k \in ReplyFields |-> apply_security_headers(plain)[k]]
        /\ apply_security_headers(plain).status = plain.status /\ apply_security_headers(plain).of = plain.of
        /\ apply_security_headers(plain).range = plain.range /\ apply_security_headers(plain).body = plain.body
    BY <2>1, WithSecurity, ZenonT(30)
  <2>3. unmodified = apply_security_headers(plain)
    BY Zenon DEF plain
  <2> HIDE DEF unmodified
  <2> QED
    BY <2>1, <2>2, <2>3, Zenon
<1>9. /\ range_not_satisfiable(meta) = [k \in ReplyFields |-> range_not_satisfiable(meta)[k]]
      /\ range_not_satisfiable(meta).status = 416 /\ range_not_satisfiable(meta).of = meta
  BY AboutFile DEF range_not_satisfiable
<1> HIDE DEF reply, unmodified
<1>10. RangeAsAsked(reply, Req.range)
  <2>1. CASE status = 206
    <3>1. Asked(Req.range, reply.of.size) = range.start .. range.start + range.length - 1
      BY <1>5, <1>7, <2>1, Zenon
    <3>2. range.length = Cardinality(range.start .. range.start + range.length - 1)
      BY <1>5, IntervalSize, Zenon
    <3> QED
      BY <1>7, <2>1, <3>1, <3>2, Zenon DEF RangeAsAsked
  <2>2. CASE status = 200
    <3>1. meta.size \in Nat
      BY <1>2, Zenon DEF Metas
    <3>2. range.start = 0 /\ range.length = meta.size
      BY <1>5, <2>2
    <3>3. range.length = Cardinality(0 .. reply.of.size - 1)
      BY <1>7, <3>1, <3>2, WholeFile, Zenon
    <3>4. 0 .. reply.of.size - 1 = range.start .. range.start + range.length - 1
      BY <1>7, <3>1, <3>2
    <3> QED
      BY <1>5, <1>7, <2>2, <3>3, <3>4 DEF RangeAsAsked
  <2> QED
    BY <1>6, <2>1, <2>2, Zenon
<1>11. ASSUME NEW answer, answer = [k \in ReplyFields |-> answer[k]], answer.of = meta, Replies(answer),
              answer.status \in {304, 416} \/ (answer = reply /\ Req.head)
       PROVE  StaticInv'
  <2>1. Shaped(call')
    BY <1>1, <1>11, RepliesLocals, Zenon
  <2>2. /\ call'.pc = "done" /\ call'.reply = answer /\ call'.req = call.req /\ call'.conf = call.conf
        /\ call'.torn = call.torn
    BY <1>1, <1>11, RepliesLocals, Zenon
  <2>3. Placed(call')
    BY <1>1, <1>3, <2>2, Zenon DEF Placed
  <2>4. Answering(call', Versions') /\ Reading(call', Versions')
    BY <2>2, Zenon DEF Answering, Reading
  <2>5. Served(call', Versions')
    <3>1. answer.status # 500
      BY <1>6, <1>7, <1>11
    <3>2. CASE answer.status \in {304, 416}
      BY <1>2, <1>3, <1>11, <2>2, <3>1, <3>2 DEF Served
    <3>3. CASE answer = reply /\ Req.head
      BY <1>2, <1>3, <1>10, <1>11, <2>2, <3>1, <3>3 DEF Served, Req
    <3> QED
      BY <1>11, <3>2, <3>3, ZenonT(30)
  <2> QED
    BY <1>3, <2>1, <2>3, <2>4, <2>5, Zenon DEF StaticInv, CallOk
<1>12. CASE ~Req.head /\ call' = [call EXCEPT !.pc = "read", !.reply = reply, !.left = range.length]
  <2>1. Shaped(call')
    BY <1>1, <1>7, <1>12, Zenon DEF Shaped, CallFields
  <2>2. /\ call'.pc = "read" /\ call'.reply = reply /\ call'.left = range.length /\ call'.req = call.req
        /\ call'.conf = call.conf /\ call'.torn = call.torn /\ call'.path = call.path /\ call'.handle = call.handle
    BY <1>1, <1>12, Zenon DEF Shaped, CallFields
  <2>3. Placed(call')
    BY <1>1, <1>2, <2>2, Zenon DEF Placed
  <2>4. ReplyOk(reply, Versions')
    BY <1>2, <1>3, <1>5, <1>6, <1>7, Zenon DEF ReplyOk
  <2>5. range.length \in Nat /\ range.length \in 0 .. range.length /\ range.length - range.length = 0
    BY <1>5
  <2>6. reply.body = FileBytes(reply.of.id, reply.range.start, range.length - range.length)
    BY <1>7, <2>5, NoBytes, Zenon
  <2>7. Reading(call', Versions')
    BY <1>2, <1>7, <1>10, <1>12, <2>2, <2>4, <2>5, <2>6, Zenon DEF Reading, Req
  <2>8. Answering(call', Versions') /\ Served(call', Versions')
    BY <2>2, Zenon DEF Answering, Served
  <2> QED
    BY <1>3, <2>1, <2>3, <2>7, <2>8, Zenon DEF StaticInv, CallOk
<1> QED
  BY <1>4, <1>7, <1>8, <1>9, <1>11, <1>12, Zenon

(* What one read adds to the bytes that have been read. *)
LEMMA MoreBytes ==
  ASSUME NEW id, NEW start \in Nat, NEW a \in Nat, NEW n \in Nat
  PROVE  FileBytes(id, start, a) \o FileBytes(id, start + a, n) = FileBytes(id, start, a + n)
<1> DEFINE s == [i \in 1 .. a |-> <<id, start + i - 1>>]
           t == [i \in 1 .. n |-> <<id, start + a + i - 1>>]
           u == [i \in 1 .. a + n |-> <<id, start + i - 1>>]
           S == {<<id, k>> : k \in Int}
<1>1. s \in Seq(S) /\ Len(s) = a /\ t \in Seq(S) /\ Len(t) = n
  OBVIOUS
<1>2. s \o t \in Seq(S) /\ Len(s \o t) = a + n
  BY <1>1
<1>3. ASSUME NEW i \in 1 .. a + n PROVE (s \o t)[i] = u[i]
  <2>1. CASE i <= a
    BY <1>1, <2>1
  <2>2. CASE i > a
    BY <1>1, <2>2
  <2> QED
    BY <2>1, <2>2
<1>4. u \in Seq(S) /\ Len(u) = a + n
  OBVIOUS
<1> HIDE DEF s, t, u, S
<1>5. s \o t = u
  BY <1>2, <1>3, <1>4
<1> QED
  BY <1>5, Zenon DEF s, t, u, FileBytes

(* The range is judged by the status, the file and the range alone. *)
LEMMA SameRange ==
  ASSUME NEW r, NEW q, NEW header, RangeAsAsked(r, header), q.status = r.status, q.of = r.of, q.range = r.range
  PROVE  RangeAsAsked(q, header)
  BY ZenonT(30) DEF RangeAsAsked

LEMMA ReadStep == ASSUME StaticInv, Read PROVE StaticInv'
<1> DEFINE n == Min({call.left, READ_CHUNK})
           reply == call.reply
           range == reply.range
           offset == range.start + range.length - call.left
           bytes == FileBytes(call.handle.id, offset, n)
<1>1. call.pc = "read" /\ DiskOk /\ Current /\ Shaped(call) /\ Placed(call) /\ Reading(call, Versions)
  BY Zenon DEF StaticInv, CallOk, Read
<1>2. DiskOk' /\ Current' /\ Versions' = Versions /\ call'.path = call.path
  BY <1>1, PathSettled, Zenon DEF Read, DiskOk, Current
<1>3. /\ ~Requests[call.req].head /\ ReplyOk(reply, Versions) /\ RangeAsAsked(reply, Requests[call.req].range)
      /\ call.left \in 0 .. range.length
      /\ ~call.torn => call.handle = reply.of /\ reply.body = FileBytes(reply.of.id, range.start, range.length - call.left)
      /\ call.torn \in BOOLEAN
  BY <1>1, Zenon DEF Reading, Placed
<1>4. /\ range.start \in Nat /\ range.length \in Nat /\ reply.of.size \in Nat
      /\ range.start + range.length <= reply.of.size /\ call.left \in Nat /\ call.left <= range.length
  BY <1>3 DEF ReplyOk, Metas
<1>5. n \in Nat /\ n <= call.left
  BY <1>4, MinOfTwo, StaticAssumption
<1>6. \/ call.left = 0 /\ call' = [call EXCEPT !.pc = "done"]
      \/ offset + n > call.handle.size /\ Replies(Failed(500))
      \/ call' = [call EXCEPT !.pc = "done", !.torn = TRUE]
      \/ call' = [call EXCEPT !.reply.body = @ \o bytes, !.left = @ - n]
  BY Zenon DEF Read
<1>7. offset + n <= reply.of.size
  BY <1>4, <1>5
<1> HIDE DEF n, bytes
<1>8. CASE call.left = 0 /\ call' = [call EXCEPT !.pc = "done"]
  <2>1. Shaped(call')
    BY <1>1, <1>8, Zenon DEF Shaped, CallFields
  <2>2. /\ call'.pc = "done" /\ call'.reply = reply /\ call'.req = call.req /\ call'.conf = call.conf
        /\ call'.torn = call.torn
    BY <1>1, <1>8, Zenon DEF Shaped, CallFields
  <2>3. Placed(call') /\ Answering(call', Versions') /\ Reading(call', Versions')
    BY <1>1, <1>2, <2>2, Zenon DEF Placed, Answering, Reading
  <2>4. range.length - call.left = range.length
    BY <1>4, <1>8
  <2>5. reply.status # 500 /\ reply.of \in Versions
    BY <1>3 DEF ReplyOk
  <2> HIDE DEF offset
  <2>6. Served(call', Versions')
    BY <1>2, <1>3, <2>2, <2>4, <2>5 DEF Served
  <2> QED
    BY <1>2, <2>1, <2>3, <2>6, Zenon DEF StaticInv, CallOk
<1>9. CASE offset + n > call.handle.size /\ Replies(Failed(500))
  <2>1. call.torn
    <3> SUFFICES ASSUME ~call.torn PROVE FALSE
      BY Zenon
    <3>1. call.handle.size = reply.of.size
      BY <1>3, Zenon
    <3>2. offset \in Int /\ offset + n \in Int
      BY <1>4, <1>5
    <3> HIDE DEF offset, reply
    <3> QED
      BY <1>4, <1>7, <1>9, <3>1, <3>2
  <2>2. Failed(500) = [k \in ReplyFields |-> Failed(500)[k]] /\ Failed(500).status = 500 /\ Failed(500).of = NoMeta
    BY FailedReply
  <2>3. Shaped(call')
    BY <1>1, <1>9, <2>2, RepliesLocals
  <2>4. /\ call'.pc = "done" /\ call'.reply = Failed(500) /\ call'.req = call.req /\ call'.conf = call.conf
        /\ call'.torn = call.torn
    BY <1>1, <1>9, <2>2, RepliesLocals
  <2>5. Placed(call') /\ Answering(call', Versions') /\ Reading(call', Versions')
    BY <1>1, <1>2, <2>4, Zenon DEF Placed, Answering, Reading
  <2>6. Served(call', Versions')
    BY <2>1, <2>2, <2>4 DEF Served
  <2> QED
    BY <1>2, <2>3, <2>5, <2>6, Zenon DEF StaticInv, CallOk
<1>10. CASE call' = [call EXCEPT !.pc = "done", !.torn = TRUE]
  <2>1. Shaped(call')
    BY <1>1, <1>10, Zenon DEF Shaped, CallFields
  <2>2. /\ call'.pc = "done" /\ call'.reply = reply /\ call'.req = call.req /\ call'.conf = call.conf
        /\ call'.torn = TRUE
    BY <1>1, <1>10, Zenon DEF Shaped, CallFields
  <2>3. Placed(call') /\ Answering(call', Versions') /\ Reading(call', Versions')
    BY <1>1, <1>2, <2>2, Zenon DEF Placed, Answering, Reading
  <2>4. reply.of \in Versions
    BY <1>3, Zenon DEF ReplyOk
  <2>5. Served(call', Versions')
    BY <1>2, <1>3, <2>2, <2>4, ZenonT(30) DEF Served
  <2> QED
    BY <1>2, <2>1, <2>3, <2>5, Zenon DEF StaticInv, CallOk
<1>11. CASE call' = [call EXCEPT !.reply.body = @ \o bytes, !.left = @ - n]
  <2> DEFINE longer == [reply EXCEPT !.body = @ \o bytes]
  <2>1. /\ longer = [k \in ReplyFields |-> longer[k]]
        /\ longer.status = reply.status /\ longer.of = reply.of /\ longer.range = range
        /\ longer.body = reply.body \o bytes
    BY <1>1, Zenon DEF Shaped, ReplyFields
  <2>2. call' = [call EXCEPT !.reply = longer, !.left = call.left - n]
    BY <1>1, <1>11, Zenon DEF Shaped, CallFields
  <2> HIDE DEF longer
  <2>3. Shaped(call')
    BY <1>1, <2>1, <2>2, Zenon DEF Shaped, CallFields
  <2>4. /\ call'.pc = "read" /\ call'.reply = longer /\ call'.req = call.req /\ call'.conf = call.conf
        /\ call'.torn = call.torn /\ call'.path = call.path /\ call'.handle = call.handle /\ call'.left = call.left - n
    BY <1>1, <2>2, Zenon DEF Shaped, CallFields
  <2>5. Placed(call') /\ Answering(call', Versions') /\ Served(call', Versions')
    BY <1>1, <2>4, Zenon DEF Placed, Answering, Served
  <2>6. ReplyOk(longer, Versions') /\ RangeAsAsked(longer, Requests[call.req].range)
    <3>1. ReplyOk(longer, Versions')
      BY <1>2, <1>3, <2>1, Zenon DEF ReplyOk
    <3>2. RangeAsAsked(longer, Requests[call.req].range)
      BY <1>3, <2>1, SameRange, Zenon
    <3> QED
      BY <3>1, <3>2, Zenon
  <2>7. call.left - n \in 0 .. longer.range.length
    BY <1>4, <1>5, <2>1
  <2>8. ASSUME ~call.torn
        PROVE  longer.body = FileBytes(longer.of.id, longer.range.start, longer.range.length - (call.left - n))
    <3> DEFINE a == range.length - call.left
    <3>1. a \in Nat /\ offset = range.start + a /\ range.length - (call.left - n) = a + n
      BY <1>4, <1>5
    <3>2. call.handle.id = reply.of.id /\ reply.body = FileBytes(reply.of.id, range.start, a)
      BY <1>3, <2>8, Zenon
    <3> HIDE DEF a, offset, range
    <3>3. bytes = FileBytes(reply.of.id, range.start + a, n)
      BY <3>1, <3>2, Zenon DEF bytes
    <3>4. FileBytes(reply.of.id, range.start, a) \o FileBytes(reply.of.id, range.start + a, n)
            = FileBytes(reply.of.id, range.start, a + n)
      <4>1. range.start \in Nat /\ a \in Nat /\ n \in Nat
        BY <1>4, <1>5, <3>1, Zenon
      <4> QED
        BY <4>1, MoreBytes, Zenon
    <3>5. reply.body \o bytes = FileBytes(reply.of.id, range.start, a + n)
      BY <3>2, <3>3, <3>4, Zenon
    <3> QED
      BY <2>1, <3>1, <3>5, Zenon
  <2>9. Reading(call', Versions')
    BY <1>3, <2>1, <2>4, <2>6, <2>7, <2>8, Zenon DEF Reading
  <2> QED
    BY <1>2, <2>3, <2>5, <2>9, Zenon DEF StaticInv, CallOk
<1> QED
  BY <1>6, <1>8, <1>9, <1>10, <1>11, Zenon

LEMMA FinishStep == ASSUME StaticInv, Finish PROVE StaticInv'
  BY Zenon DEF StaticInv, Finish, Idle, DiskOk

-----------------------------------------------------------------------------
(* The steps of the disk and the cache. *)
LEMMA MoreSeen ==
  ASSUME NEW c, NEW versions, CallOk(c, versions), NEW more, versions \subseteq more
  PROVE  CallOk(c, more)
  BY SMTT(30) DEF CallOk, Answering, Reading, ReplyOk, Served

LEMMA ChangedOk ==
  ASSUME DiskOk, NEW now \in [StaticPaths -> Nodes], Changed(now),
         \A p \in StaticPaths : now[p] = disk[p] \/ now[p].meta.kind # "dir"
  PROVE  DiskOk' /\ (call.pc # "idle" => Current' /\ \A p \in StaticPaths : seen[p] \subseteq seen'[p])
<1>1. /\ disk' = now /\ cache' = cache /\ changes' = changes + 1
      /\ seen' = [p \in StaticPaths |-> IF call.pc = "idle" THEN {} ELSE seen[p] \cup {now[p].meta}]
  BY Zenon DEF Changed
<1>2. changes' \in Nat
  BY <1>1 DEF DiskOk
<1>3. DiskOk'
  BY <1>1, <1>2, Zenon DEF DiskOk
<1>4. ASSUME call.pc # "idle" PROVE Current' /\ \A p \in StaticPaths : seen[p] \subseteq seen'[p]
  BY <1>1, <1>4, Zenon DEF Current
<1> QED
  BY <1>3, <1>4, Zenon

LEMMA ChangeOk ==
  ASSUME DiskOk, NEW p \in StaticPaths, NEW node \in Nodes, node.meta.kind # "dir", Change(p, node)
  PROVE  DiskOk' /\ (call.pc # "idle" => Current' /\ \A q \in StaticPaths : seen[q] \subseteq seen'[q])
<1> DEFINE now == [disk EXCEPT ![p] = node]
<1>1. now \in [StaticPaths -> Nodes] /\ \A q \in StaticPaths : now[q] = disk[q] \/ now[q].meta.kind # "dir"
  BY Zenon DEF DiskOk
<1>2. Changed(now)
  BY Zenon DEF Change
<1> HIDE DEF now
<1> QED
  BY <1>1, <1>2, ChangedOk, Zenon

(* A change that leaves the request alone, or at least its path. *)
LEMMA StillOk ==
  ASSUME StaticInv, DiskOk', call' = call,
         call.pc # "idle" => Current' /\ \A p \in StaticPaths : seen[p] \subseteq seen'[p]
  PROVE  StaticInv'
<1>1. CASE call.pc = "idle"
  BY <1>1, Zenon DEF StaticInv
<1>2. CASE call.pc # "idle"
  <2>1. CallOk(call, Versions) /\ call.path \in StaticPaths
    BY <1>2, Zenon DEF StaticInv, CallOk, Placed
  <2>2. Versions \subseteq Versions'
    BY <1>2, <2>1, Zenon DEF Versions
  <2>3. CallOk(call, Versions')
    BY <2>1, <2>2, MoreSeen, Zenon
  <2> QED
    BY <1>2, <2>3, Zenon DEF StaticInv
<1> QED
  BY <1>1, <1>2, Zenon

LEMMA ReplaceStep ==
  ASSUME StaticInv, NEW p \in Mutable, NEW size \in Sizes, NEW link \in BOOLEAN, Replace(p, size, link)
  PROVE  StaticInv'
<1> DEFINE node(real) == [link |-> link, real |-> real,
                          meta |-> [kind |-> "file", size |-> size, secs |-> 0, ino |-> changes + 2, id |-> changes + 2]]
<1>1. PICK real \in IF link THEN Targets ELSE {p} : Change(p, node(real))
  BY Zenon DEF Replace
<1>2. p \in StaticPaths /\ size \in Nat /\ changes + 2 \in Int
  BY StaticAssumption DEF StaticInv, DiskOk
<1>3. real \in StaticPaths \cup Targets \cup {Root}
  BY <1>1, <1>2, Zenon
<1>4. node(real) \in Nodes /\ node(real).meta.kind = "file"
  BY <1>2, <1>3 DEF Nodes, Metas
<1> HIDE DEF node
<1>5. DiskOk' /\ (call.pc # "idle" => Current' /\ \A q \in StaticPaths : seen[q] \subseteq seen'[q])
  BY <1>1, <1>2, <1>4, ChangeOk, Zenon DEF StaticInv
<1>6. call' = call
  BY Zenon DEF Replace
<1> QED
  BY <1>5, <1>6, StillOk, Zenon

LEMMA UnlinkStep == ASSUME StaticInv, NEW p \in Mutable, Unlink(p) PROVE StaticInv'
<1>1. AbsentNode \in Nodes /\ AbsentNode.meta.kind = "absent"
  BY DEF AbsentNode, NoMeta, Nodes, Metas
<1>2. Change(p, AbsentNode) /\ call' = call /\ p \in StaticPaths /\ DiskOk
  BY StaticAssumption, Zenon DEF StaticInv, Unlink
<1>3. DiskOk' /\ (call.pc # "idle" => Current' /\ \A q \in StaticPaths : seen[q] \subseteq seen'[q])
  BY <1>1, <1>2, ChangeOk, Zenon
<1> QED
  BY <1>2, <1>3, StillOk, Zenon

LEMMA MoveAwayStep == ASSUME StaticInv, MoveAway PROVE StaticInv'
<1> DEFINE now == [p \in StaticPaths |-> AbsentNode]
<1>1. AbsentNode \in Nodes /\ AbsentNode.meta.kind = "absent"
  BY DEF AbsentNode, NoMeta, Nodes, Metas
<1>2. now \in [StaticPaths -> Nodes] /\ \A p \in StaticPaths : now[p] = disk[p] \/ now[p].meta.kind # "dir"
  BY <1>1, Zenon
<1>3. Changed(now) /\ call' = call /\ DiskOk
  BY Zenon DEF MoveAway, StaticInv
<1> HIDE DEF now
<1>4. DiskOk' /\ (call.pc # "idle" => Current' /\ \A q \in StaticPaths : seen[q] \subseteq seen'[q])
  BY <1>2, <1>3, ChangedOk, Zenon
<1> QED
  BY <1>3, <1>4, StillOk, Zenon

(* A request whose file is written in place is torn from then on. *)
LEMMA TornOk ==
  ASSUME NEW c, NEW versions, CallOk(c, versions), c.pc \in {"respond", "read"}, NEW meta
  PROVE  CallOk([c EXCEPT !.handle = meta, !.torn = TRUE], versions)
<1> DEFINE d == [c EXCEPT !.handle = meta, !.torn = TRUE]
<1>1. Shaped(d)
  BY Zenon DEF CallOk, Shaped, CallFields
<1>2. /\ d.pc = c.pc /\ d.req = c.req /\ d.conf = c.conf /\ d.path = c.path /\ d.object = c.object
      /\ d.reply = c.reply /\ d.left = c.left /\ d.torn = TRUE
  BY Zenon DEF CallOk, Shaped, CallFields
<1> HIDE DEF d
<1>3. Placed(d)
  BY <1>2, Zenon DEF CallOk, Placed
<1>4. Answering(d, versions) /\ Reading(d, versions) /\ Served(d, versions)
  BY <1>2, Zenon DEF CallOk, Answering, Reading, Served
<1> QED
  BY <1>1, <1>3, <1>4, Zenon DEF CallOk, d

LEMMA RewriteStep ==
  ASSUME StaticInv, NEW p \in Mutable, NEW size \in Sizes, Rewrite(p, size)
  PROVE  StaticInv'
<1> DEFINE meta == [disk[p].meta EXCEPT !.size = size, !.id = changes + 2]
           node == [disk[p] EXCEPT !.meta = meta]
<1>1. p \in StaticPaths /\ size \in Nat /\ changes + 2 \in Int /\ disk[p] \in Nodes /\ disk[p].meta.kind = "file" /\ DiskOk
  BY StaticAssumption DEF StaticInv, DiskOk, Rewrite
<1>2. meta \in Metas /\ meta.kind = "file"
  BY <1>1, Zenon DEF Nodes, Metas
<1>3. /\ Change(p, node)
      /\ \/ call' = call
         \/ call.pc \in {"respond", "read"} /\ call' = [call EXCEPT !.handle = meta, !.torn = TRUE]
  BY Zenon DEF Rewrite
<1> HIDE DEF meta
<1>4. node \in Nodes /\ node.meta.kind = "file"
  BY <1>1, <1>2, Zenon DEF Nodes
<1> HIDE DEF node
<1>5. DiskOk' /\ (call.pc # "idle" => Current' /\ \A q \in StaticPaths : seen[q] \subseteq seen'[q])
  BY <1>1, <1>3, <1>4, ChangeOk, Zenon
<1>6. CASE call' = call
  BY <1>5, <1>6, StillOk, Zenon
<1>7. CASE call.pc \in {"respond", "read"} /\ call' = [call EXCEPT !.handle = meta, !.torn = TRUE]
  <2>1. call.pc # "idle" /\ CallOk(call, Versions) /\ call.path \in StaticPaths /\ Shaped(call)
    BY <1>7, Zenon DEF StaticInv, CallOk, Placed
  <2>2. CallOk(call', Versions)
    BY <1>7, <2>1, TornOk, Zenon
  <2>3. call'.path = call.path
    BY <1>7, <2>1, Zenon DEF Shaped, CallFields
  <2>4. Versions \subseteq Versions'
    BY <1>5, <2>1, <2>3, Zenon DEF Versions
  <2>5. CallOk(call', Versions')
    BY <2>2, <2>4, MoreSeen, Zenon
  <2> QED
    BY <1>5, <2>1, <2>5, Zenon DEF StaticInv
<1> QED
  BY <1>3, <1>6, <1>7, Zenon

LEMMA ExpireStep == ASSUME StaticInv, NEW p \in StaticPaths, Expire(p) PROVE StaticInv'
<1>1. DiskOk'
  <2>1. Sound(cache')
    BY SoundCache, InsertOk, EmptyEntry, Zenon DEF StaticInv, Expire, invalidate
  <2> QED
    BY <2>1, CacheStep, Zenon DEF StaticInv, Expire
<1> QED
  BY <1>1, Zenon DEF StaticInv, Expire, Current, Versions

LEMMA StaticInvStep == StaticInv /\ [StaticNext]_staticVars => StaticInv'
<1> SUFFICES ASSUME StaticInv, [StaticNext]_staticVars PROVE StaticInv'
  BY Zenon
<1>1. CASE UNCHANGED staticVars
  BY <1>1, Zenon DEF StaticInv, DiskOk, Current, Versions, staticVars
<1>2. CASE StaticNext
  BY <1>2, ServeStep, LookupStep, ConfineStep, IndexStep, OpenStep, ReloadStep, RespondStep, ReadStep, FinishStep,
     RewriteStep, ReplaceStep, UnlinkStep, MoveAwayStep, ExpireStep, Zenon DEF StaticNext
<1> QED
  BY <1>1, <1>2, Zenon

(* What is served is about one version of the file, for any disk, requests,    *)
(* configurations and changes of the files.                                    *)
THEOREM OneVersionSafety == StaticInit /\ [][StaticNext]_staticVars => []OneVersionServed
<1>1. StaticInv => OneVersionServed
  <2> SUFFICES ASSUME StaticInv, call.pc = "done" PROVE OneVersionServed
    BY Zenon DEF OneVersionServed
  <2>1. Served(call, seen[call.path])
    <3>1. call.pc # "idle"
      OBVIOUS
    <3> QED BY <3>1, Zenon DEF StaticInv, CallOk, Versions
  <2>2. CASE call.reply.status = 500
    BY <2>1, <2>2 DEF Served, OneVersionServed
  <2>3. CASE call.reply.status # 500
    BY <2>1, <2>3, Zenon DEF Served, OneVersionServed, Req
  <2> QED BY <2>2, <2>3, Zenon
<1> QED
  BY <1>1, StaticInvInit, StaticInvStep, PTL
=============================================================================
