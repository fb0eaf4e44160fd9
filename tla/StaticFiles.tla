----------------------------- MODULE StaticFiles ----------------------------
(***************************************************************************)
(* Static file serving (libs/ophan-static): StaticService::serve with the  *)
(* metadata cache of fs/cache.rs, the mapping of a URI onto the document   *)
(* root (fs/path.rs), the confinement to the root, index files, the        *)
(* conditional and range requests of http/, and the read of the body,      *)
(* while files are replaced, rewritten and removed between any two of the  *)
(* service's blocking calls.                                               *)
(*                                                                         *)
(* A path is the sequence of its segments below the root.  A node of the   *)
(* disk is [link, real, meta]: whether the last component is a symbolic    *)
(* link, the canonical path, and the metadata behind it, in which id       *)
(* stands for the inode's times to the nanosecond and so for the content:  *)
(* byte i of a file is <<id, i>>.                                          *)
(***************************************************************************)
EXTENDS Integers, Sequences, FiniteSets, FiniteSetsExt

CONSTANTS
  StaticPaths,  \* the paths that may exist below the root
  Disks,        \* what may be there when the service starts
  Mutable,      \* the paths that are written later
  Sizes,        \* and the sizes they get
  Targets,      \* canonical paths a new symbolic link may lead to
  Requests,     \* sequence of requests
  Configs,      \* sequence of serve configurations
  Escaped,      \* percent-escape |-> the byte it stands for
  BadEscapes,   \* escapes that are not two hex digits, or no UTF-8
  READ_CHUNK,   \* bytes of one blocking read
  MaxChanges    \* bound on changes of the disk

VARIABLES
  disk,     \* path |-> node
  changes,  \* changes of the disk so far, and the identity of the last one
  cache,    \* Filesystem.cache
  misses,   \* Filesystem.misses
  call,     \* the request being served: its locals
  seen      \* history: path |-> the metadata it had since the request began

staticVars == <<disk, changes, cache, misses, call, seen>>

Root == <<>>
Outside == <<<<"..">>>>  \* a canonical path that is not below the root's
NoMeta == [kind |-> "absent", size |-> 0, secs |-> 0, ino |-> 0, id |-> 0]
AbsentNode == [link |-> FALSE, real |-> Root, meta |-> NoMeta]
NoRange == [start |-> 0, length |-> 0]
Idle == [pc |-> "idle"]
Unseen == [p \in StaticPaths |-> {}]

-----------------------------------------------------------------------------
(* fs/path.rs: every raw segment is decoded on its own.  A segment is a        *)
(* sequence of bytes and escapes.                                              *)
percent_decode(raw) == [i \in DOMAIN raw |-> IF raw[i] \in DOMAIN Escaped THEN Escaped[raw[i]] ELSE raw[i]]

check_segment(seg, dotfiles) ==
  IF seg \in {<<".">>, <<".", ".">>} \/ \E i \in DOMAIN seg : seg[i] \in {"NUL", "/", "\\"} THEN "malformed"
  ELSE IF ~dotfiles /\ seg[1] = "." THEN "hidden" ELSE "ok"

(* The first segment that fails decides. *)
resolve_path(segments, dotfiles) ==
  LET parts == SelectSeq(segments, LAMBDA s : s # <<>>)
      Check(raw) == IF \E i \in DOMAIN raw : raw[i] \in BadEscapes THEN "malformed"
                    ELSE check_segment(percent_decode(raw), dotfiles)
      bad == {i \in DOMAIN parts : Check(parts[i]) # "ok"}
  IN IF bad = {} THEN [err |-> "ok", path |-> [i \in DOMAIN parts |-> percent_decode(parts[i])]]
     ELSE [err |-> Check(parts[Min(bad)]), path |-> Root]

-----------------------------------------------------------------------------
(* http/ranges.rs.  A range header is [prefix, specs]: whether it starts with  *)
(* `bytes=`, and per element of the list <<>> (blank), <<n>> (no dash) or      *)
(* <<first, last>>; Blank is an empty number and NaN one that is not a u64.    *)
Blank == -1
NaN == -2

parse_single_range(spec, size) ==
  IF Len(spec) = 1 THEN "invalid"
  ELSE LET first == spec[1]  last == spec[2]
       IN IF first = Blank THEN IF last < 0 THEN "invalid" ELSE IF last = 0 THEN "none" ELSE "some"
          ELSE IF first = NaN THEN "invalid"
          ELSE IF first >= size THEN "none"
          ELSE IF last # Blank /\ (last = NaN \/ first > last) THEN "invalid" ELSE "some"

(* The range parse_single_range returns, when it returns one. *)
RangeOf(spec, size) ==
  LET first == spec[1]  last == spec[2]
      suffix == Min({last, size})
  IN IF first = Blank THEN [start |-> size - suffix, length |-> suffix]
     ELSE IF last = Blank THEN [start |-> first, length |-> size - first]
     ELSE [start |-> first, length |-> Min({last, size - 1}) - first + 1]

(* The elements of the list with an outcome; a blank one is skipped. *)
SpecsThatAre(what, header, size) ==
  {i \in DOMAIN header.specs : header.specs[i] # <<>> /\ parse_single_range(header.specs[i], size) = what}

(* HttpRange::parse: <<"ok", ranges>>, <<"invalid", >> or <<"no_overlap", >>,  *)
(* each range at the place of its element.                                     *)
parse_ranges(header, size) ==
  LET found == SpecsThatAre("some", header, size)
  IN IF header.prefix = "empty" THEN <<"ok", <<>>>>
     ELSE IF header.prefix = "other" \/ SpecsThatAre("invalid", header, size) # {} THEN <<"invalid", <<>>>>
     ELSE IF found = {} /\ SpecsThatAre("none", header, size) # {} THEN <<"no_overlap", <<>>>>
     ELSE <<"ok", [i \in found |-> RangeOf(header.specs[i], size)]>>

-----------------------------------------------------------------------------
(* The nodes a disk is made of, and the elements of a range header.            *)
Metas == [kind : {"absent", "file", "dir", "denied"}, size : Nat, secs : Int, ino : Int, id : Int]
Nodes == [link : BOOLEAN, real : StaticPaths \cup Targets \cup {Root}, meta : Metas]
Numbers == Nat \cup {Blank, NaN}
Specs == {<<>>} \cup [1 .. 1 -> Numbers] \cup [1 .. 2 -> Numbers]

DirPaths == {p \in StaticPaths : \E d \in Disks : d[p].meta.kind = "dir"}

(* StaticPaths has every path a request, or an index file of a directory, may  *)
(* name.                                                                       *)
ASSUME StaticAssumption ==
  /\ Disks \subseteq [StaticPaths -> Nodes]
  /\ Mutable \subseteq StaticPaths
  /\ Root \in StaticPaths
  /\ Sizes \subseteq Nat
  /\ READ_CHUNK \in Nat \ {0}
  /\ \A r \in DOMAIN Requests :
       /\ Requests[r].head \in BOOLEAN
       /\ Requests[r].range.specs \in Seq(Specs)
       /\ \A dotfiles \in BOOLEAN : LET mapped == resolve_path(Requests[r].segments, dotfiles)
                                   IN  mapped.err = "ok" => mapped.path \in StaticPaths
  /\ \A c \in DOMAIN Configs :
       /\ Len(Configs[c].indexes) \in Nat
       /\ \A p \in DirPaths, i \in 1 .. Len(Configs[c].indexes) : Append(p, Configs[c].indexes[i]) \in StaticPaths

-----------------------------------------------------------------------------
(* http/conditional.rs.  A member of If-None-Match is [t, e]: "any" for `*`,   *)
(* "strong" or "weak" for a tag, "bad" for anything else, which ends the scan. *)
create_etag(meta) == <<meta.size, meta.secs, meta.ino>>

etag_list_matches_weak(list, etag) ==
  LET Hit(i) == list[i].t = "any" \/ (list[i].t \in {"strong", "weak"} /\ list[i].e = etag)
  IN \E i \in DOMAIN list : Hit(i) /\ \A j \in 1 .. i - 1 : list[j].t # "bad"

NoDate == -1

(* headers.since is the date of If-Modified-Since in seconds, NoDate when      *)
(* there is none or it is no date; LastModified truncates to seconds.          *)
is_not_modified(headers, meta) ==
  IF headers.none_match # <<>> THEN etag_list_matches_weak(headers.none_match, create_etag(meta))
  ELSE headers.since # NoDate /\ meta.secs <= headers.since

(* headers.if_range is [t, e]: "none", a "strong" or "weak" tag, or a "date". *)
if_range_allows(headers, meta) ==
  LET v == headers.if_range
  IN CASE v.t = "none" -> TRUE
       [] v.t = "strong" -> v.e = create_etag(meta)
       [] v.t = "weak" -> FALSE
       [] v.t = "date" -> v.e = <<meta.secs>>
       [] OTHER -> FALSE

-----------------------------------------------------------------------------
(* fs/cache.rs.  What load_blocking finds at p; links are followed for the     *)
(* metadata, and the canonical path has them resolved.                         *)
load_blocking(p) == [path |-> p, real |-> disk[p].real, meta |-> disk[p].meta, link |-> disk[p].link]

IoError(p) == IF disk[p].meta.kind = "absent" THEN "not_found"
              ELSE IF disk[p].meta.kind = "denied" THEN "denied" ELSE "ok"

(* fetch_or_load: the outcome, the object, and the two maps afterwards. *)
fetch_or_load(p, kept, absent) ==
  CASE p \in absent -> [err |-> "not_found", object |-> AbsentNode, cache |-> kept, misses |-> absent]
    [] p \notin absent /\ kept[p] # AbsentNode -> [err |-> "ok", object |-> kept[p], cache |-> kept, misses |-> absent]
    [] OTHER -> [err |-> IoError(p),
                 object |-> load_blocking(p),
                 cache |-> IF IoError(p) = "ok" THEN [kept EXCEPT ![p] = load_blocking(p)] ELSE kept,
                 misses |-> IF IoError(p) = "not_found" THEN absent \cup {p} ELSE absent]

invalidate(p, kept) == [kept EXCEPT ![p] = AbsentNode]

(* error.rs: from_io. *)
from_io(err) == CASE err = "not_found" -> 404 [] err \in {"denied", "loop"} -> 403 [] OTHER -> 500

-----------------------------------------------------------------------------
(* service.rs.  A reply. *)
Failed(status) == [status |-> status, of |-> NoMeta, range |-> NoRange, security |-> {}, body |-> <<>>]

range_not_satisfiable(meta) == [Failed(416) EXCEPT !.of = meta]

Conf == Configs[call.conf]
Req == Requests[call.req]

(* The skip patterns see the path below the root here, the whole path in a     *)
(* listing: skip and listing_skip are the paths they match.                    *)
is_blacklisted(rel) == rel \in Conf.skip

is_same_file(object, meta) == object.meta = meta

Replies(reply) == call' = [call EXCEPT !.pc = "done", !.reply = reply]

(* resolve_file's first test, and the start of open_current. *)
Opens(object, rel) ==
  IF object.meta.kind = "file"
  THEN call' = [call EXCEPT !.pc = "open", !.path = rel, !.object = object]
  ELSE Replies(Failed(403))

(* serve, up to its first await. *)
Serve(r, c) ==
  LET config == Configs[c]
      mapped == resolve_path(Requests[r].segments, "DOTFILES" \in config.flags)
      New(pc, reply, path) == [pc |-> pc, req |-> r, conf |-> c, path |-> path, object |-> AbsentNode, index |-> 1,
                               reloaded |-> FALSE, handle |-> NoMeta, reply |-> reply, left |-> 0, torn |-> FALSE]
  IN /\ call.pc = "idle"
     /\ call' = CASE mapped.err = "malformed" -> New("done", Failed(400), Root)
                  [] mapped.err = "hidden" -> New("done", Failed(403), Root)
                  [] mapped.err = "ok" /\ mapped.path # Root /\ mapped.path \in config.skip -> New("done", Failed(403), mapped.path)
                  [] OTHER -> New("lookup", Failed(0), mapped.path)
     /\ seen' = [p \in StaticPaths |-> {disk[p].meta}]
     /\ UNCHANGED <<disk, changes, cache, misses>>

(* The first fetch_or_load; its object goes to check_confined. *)
Lookup ==
  LET got == fetch_or_load(call.path, cache, misses)
  IN /\ call.pc = "lookup"
     /\ cache' = got.cache
     /\ misses' = got.misses
     /\ IF got.err # "ok" THEN Replies(Failed(from_io(got.err)))
        ELSE call' = [call EXCEPT !.pc = "entry", !.object = got.object]
     /\ UNCHANGED <<disk, changes, seen>>

(* What serve ("entry"), find_index and open_current ("confine") do with an    *)
(* object that check_confined lets pass.                                       *)
Admits ==
  IF call.pc = "entry" /\ call.object.meta.kind = "dir" THEN call' = [call EXCEPT !.pc = "index"]
  ELSE IF call.pc = "entry" /\ "READ_FILES" \notin Conf.flags THEN Replies(Failed(403))
  ELSE Opens(call.object, call.path)

(* check_confined: the root is fetched like any path, and without              *)
(* FOLLOW_SYMLINKS the canonical path has to be the path itself.               *)
Confine ==
  LET follow == "FOLLOW_SYMLINKS" \in Conf.flags
      root == fetch_or_load(Root, cache, misses)
      confined == call.object.real # Outside /\ (follow \/ call.object.real = call.path)
  IN /\ call.pc \in {"entry", "confine"}
     /\ IF follow /\ "ESCAPE_ROOT" \in Conf.flags
        THEN Admits /\ UNCHANGED <<cache, misses>>
        ELSE /\ cache' = root.cache
             /\ misses' = root.misses
             /\ IF root.err # "ok" THEN Replies(Failed(from_io(root.err)))
                ELSE IF confined THEN Admits ELSE Replies(Failed(403))
     /\ UNCHANGED <<disk, changes, seen>>

(* FsFlags::is_blocked, and DirectoryListing::render: one row per entry.       *)
is_blocked(node, name) ==
  \/ "FOLLOW_SYMLINKS" \notin Conf.flags /\ node.link
  \/ "DOTFILES" \notin Conf.flags /\ Head(name) = "."

render(dir) ==
  {p \in StaticPaths : /\ Len(p) = Len(dir) + 1
                       /\ SubSeq(p, 1, Len(dir)) = dir
                       /\ disk[p].meta.kind # "absent"
                       /\ ~is_blocked(disk[p], p[Len(p)])
                       /\ p \notin Conf.listing_skip}

(* resolve_directory: one candidate of find_index, or what follows the last. *)
Index ==
  LET candidate == Append(call.path, Conf.indexes[call.index])
      got == fetch_or_load(candidate, cache, misses)
      usable == got.err = "ok" /\ got.object.meta.kind # "dir" /\ ~is_blacklisted(candidate)
      tried == "INDEX_FILES" \in Conf.flags /\ call.index <= Len(Conf.indexes)
  IN /\ call.pc = "index"
     /\ IF tried
        THEN /\ cache' = got.cache
             /\ misses' = got.misses
             /\ call' = IF usable THEN [call EXCEPT !.pc = "confine", !.path = candidate, !.object = got.object]
                        ELSE [call EXCEPT !.index = @ + 1]
        ELSE /\ Replies(IF "DIRECTORY_LIST" \in Conf.flags
                     THEN [Failed(200) EXCEPT !.security = Conf.security, !.body = render(call.path)]
                     ELSE Failed(403))
             /\ UNCHANGED <<cache, misses>>
     /\ UNCHANGED <<disk, changes, seen>>

(* What open or stat finds; without FOLLOW_SYMLINKS a link is an error for the *)
(* open (O_NOFOLLOW) and a node of its own for the stat of a HEAD.             *)
Opened(p) ==
  LET follow == "FOLLOW_SYMLINKS" \in Conf.flags
      node == disk[p]
  IN CASE IoError(p) # "ok" -> [err |-> IoError(p), meta |-> NoMeta]
       [] IoError(p) = "ok" /\ node.link /\ ~follow ->
            IF Req.head THEN [err |-> "ok", meta |-> [node.meta EXCEPT !.kind = "link", !.id = -node.meta.id]]
            ELSE [err |-> "loop", meta |-> NoMeta]
       [] OTHER -> [err |-> "ok", meta |-> node.meta]

(* Slip: the cached metadata are trusted, whatever the handle says. *)
OpenTrusting ==
  LET got == Opened(call.path)
  IN /\ call.pc = "open"
     /\ IF got.err # "ok" THEN Replies(Failed(from_io(got.err)))
        ELSE call' = [call EXCEPT !.pc = "respond", !.handle = got.meta]
     /\ UNCHANGED <<disk, changes, cache, misses, seen>>

(* One turn of open_current's loop. *)
Open ==
  LET got == Opened(call.path)
      adopted == [call.object EXCEPT !.meta = got.meta]
  IN /\ call.pc = "open"
     /\ CASE got.err # "ok" -> Replies(Failed(from_io(got.err)))
          [] got.err = "ok" /\ is_same_file(call.object, got.meta) ->
               call' = [call EXCEPT !.pc = "respond", !.handle = got.meta]
          [] got.err = "ok" /\ ~is_same_file(call.object, got.meta) /\ ~call.reloaded ->
               call' = [call EXCEPT !.pc = "reload"]
          [] OTHER -> IF got.meta.kind = "file"
                      THEN call' = [call EXCEPT !.pc = "respond", !.handle = got.meta, !.object = adopted]
                      ELSE Replies(Failed(403))
     /\ UNCHANGED <<disk, changes, cache, misses, seen>>

(* Filesystem::reload; what it finds goes to check_confined again. *)
Reload ==
  LET got == fetch_or_load(call.path, invalidate(call.path, cache), misses \ {call.path})
  IN /\ call.pc = "reload"
     /\ cache' = got.cache
     /\ misses' = got.misses
     /\ IF got.err # "ok" THEN Replies(Failed(from_io(got.err)))
        ELSE IF got.object.meta.kind = "dir" THEN Replies(Failed(404))
        ELSE call' = [call EXCEPT !.pc = "confine", !.object = got.object, !.reloaded = TRUE]
     /\ UNCHANGED <<disk, changes, seen>>

apply_security_headers(reply) == [reply EXCEPT !.security = Conf.security \ {"SERVER_TOKENS"}]

(* The range resolve_file serves: <<"all">>, <<"part", r>> or <<"refused">>. *)
Selected(meta) ==
  LET parsed == parse_ranges(Req.range, meta.size)
      places == DOMAIN parsed[2]
      first == parsed[2][Min(places)]
  IN IF ~("RANGE_REQUESTS" \in Conf.flags /\ Req.range.prefix # "absent" /\ if_range_allows(Req, meta)) THEN <<"all", NoRange>>
     ELSE IF parsed[1] # "ok" THEN <<"refused", NoRange>>
     ELSE IF places = {} THEN <<"all", NoRange>>
     ELSE IF first.length = 0 THEN <<"refused", NoRange>> ELSE <<"part", first>>

(* resolve_file after the open: headers from the object alone. *)
Respond ==
  LET meta == call.object.meta
      chosen == Selected(meta)
      range == IF chosen[1] = "part" THEN chosen[2] ELSE [start |-> 0, length |-> meta.size]
      reply == apply_security_headers(
                 [Failed(IF chosen[1] = "part" THEN 206 ELSE 200) EXCEPT !.of = meta, !.range = range])
  IN /\ call.pc = "respond"
     /\ CASE is_not_modified(Req, meta) -> Replies(apply_security_headers([Failed(304) EXCEPT !.of = meta]))
          [] ~is_not_modified(Req, meta) /\ chosen[1] = "refused" -> Replies(range_not_satisfiable(meta))
          [] OTHER -> IF Req.head THEN Replies(reply)
                      ELSE call' = [call EXCEPT !.pc = "read", !.reply = reply, !.left = range.length]
     /\ UNCHANGED <<disk, changes, cache, misses, seen>>

(* n bytes of a file, from an offset on. *)
FileBytes(id, from, n) == [i \in 1 .. n |-> <<id, from + i - 1>>]

(* One blocking read: the whole body of a small file, or the next chunk of the *)
(* stream.  A file that shrank fails the read, with 500 while no header went   *)
(* out and with a broken body afterwards.                                      *)
Read ==
  LET n == Min({call.left, READ_CHUNK})
      range == call.reply.range
      offset == range.start + range.length - call.left
      bytes == FileBytes(call.handle.id, offset, n)
  IN /\ call.pc = "read"
     /\ IF call.left = 0 THEN call' = [call EXCEPT !.pc = "done"]
        ELSE IF offset + n > call.handle.size
        THEN IF range.length <= READ_CHUNK THEN Replies(Failed(500))
             ELSE call' = [call EXCEPT !.pc = "done", !.torn = TRUE]
        ELSE call' = [call EXCEPT !.reply.body = @ \o bytes, !.left = @ - n]
     /\ UNCHANGED <<disk, changes, cache, misses, seen>>

Finish ==
  /\ call.pc = "done"
  /\ call' = Idle
  /\ seen' = Unseen
  /\ UNCHANGED <<disk, changes, cache, misses>>

-----------------------------------------------------------------------------
(* The rest of the system: the files change, cached entries expire.            *)
Changed(now) ==
  /\ changes < MaxChanges
  /\ changes' = changes + 1
  /\ disk' = now
  /\ seen' = [p \in StaticPaths |-> IF call.pc = "idle" THEN {} ELSE seen[p] \cup {now[p].meta}]
  /\ UNCHANGED <<cache, misses>>

Change(p, node) == Changed([disk EXCEPT ![p] = node])

(* A new file is renamed over p; a handle keeps the old one. *)
Replace(p, size, link) ==
  /\ disk[Root].meta.kind = "dir"
  /\ \E real \in IF link THEN Targets ELSE {p} :
       Change(p, [link |-> link, real |-> real,
                  meta |-> [kind |-> "file", size |-> size, secs |-> 0, ino |-> changes + 2, id |-> changes + 2]])
  /\ UNCHANGED call

(* p is written in place: its inode stays, and an open handle sees it. *)
Rewrite(p, size) ==
  LET meta == [disk[p].meta EXCEPT !.size = size, !.id = changes + 2]
  IN /\ disk[p].meta.kind = "file"
     /\ Change(p, [disk[p] EXCEPT !.meta = meta])
     /\ call' = IF call.pc \in {"respond", "read"} /\ call.handle.ino = meta.ino
                THEN [call EXCEPT !.handle = meta, !.torn = TRUE] ELSE call

Unlink(p) ==
  /\ disk[p].meta.kind = "file"
  /\ Change(p, AbsentNode)
  /\ UNCHANGED call

(* The whole tree is moved away; open handles keep their files. *)
MoveAway ==
  /\ disk[Root].meta.kind = "dir"
  /\ Changed([p \in StaticPaths |-> AbsentNode])
  /\ UNCHANGED call

Expire(p) ==
  /\ cache[p] # AbsentNode \/ p \in misses
  /\ cache' = invalidate(p, cache)
  /\ misses' = misses \ {p}
  /\ UNCHANGED <<disk, changes, call, seen>>

StaticInit ==
  /\ disk \in Disks
  /\ changes = 0
  /\ cache = [p \in StaticPaths |-> AbsentNode]
  /\ misses = {}
  /\ call = Idle
  /\ seen = Unseen

StaticNext ==
  \/ \E r \in DOMAIN Requests, c \in DOMAIN Configs : Serve(r, c)
  \/ Lookup \/ Confine \/ Index \/ Open \/ Reload \/ Respond \/ Read \/ Finish
  \/ \E p \in Mutable, size \in Sizes : Rewrite(p, size) \/ \E link \in BOOLEAN : Replace(p, size, link)
  \/ \E p \in Mutable : Unlink(p)
  \/ MoveAway
  \/ \E p \in StaticPaths : Expire(p)

-----------------------------------------------------------------------------
(* The positions of the file that the first range of a header asks for, when   *)
(* it can be satisfied: all of them without one.                               *)
Within(spec, size, i) == IF spec[1] = Blank THEN i >= size - spec[2] ELSE i >= spec[1] /\ (spec[2] = Blank \/ i <= spec[2])

Asked(header, size) ==
  LET wanted == {i \in DOMAIN header.specs : Len(header.specs[i]) = 2 /\ parse_single_range(header.specs[i], size) = "some"}
  IN {i \in 0 .. size - 1 : Within(header.specs[Min(wanted)], size, i)}

(* The range of a reply is what was asked for of the file it is about. *)
RangeAsAsked(reply, header) ==
  LET positions == IF reply.status = 206 THEN Asked(header, reply.of.size) ELSE 0 .. reply.of.size - 1
  IN /\ reply.range.length = Cardinality(positions)
     /\ \A i \in positions : i \in reply.range.start .. reply.range.start + reply.range.length - 1

(* StaticService::serve: although the metadata come from a cache and the file  *)
(* may be replaced or removed between any two calls, what is answered is about *)
(* one version of the file at the path that was resolved (the request's, or    *)
(* the index file of its directory), which was there while the request ran:    *)
(* its validators, its length, the range, and every byte of the body.  Only a  *)
(* file that is written in place while it is read gives a broken body or a 500.*)
OneVersionServed ==
  call.pc = "done" =>
    LET reply == call.reply
        about == reply.status \in {200, 206, 304, 416} /\ reply.of # NoMeta
    IN /\ reply.status = 500 => call.torn
       /\ about => reply.of \in seen[call.path]
       /\ about /\ reply.status \in {200, 206} =>
            /\ RangeAsAsked(reply, Req.range)
            /\ ~Req.head /\ ~call.torn => reply.body = FileBytes(reply.of.id, reply.range.start, reply.range.length)
=============================================================================
