----------------------------- MODULE AgentTools -----------------------------
(***************************************************************************)
(* What the main agent's tools show the model                              *)
(* (apps/app/src/graph/nodes/tools-node): the files and the messages of    *)
(* the room, which are read page by page from the newest back while the    *)
(* room goes on; the skills of the registry; the chunks of the channel's   *)
(* memory.                                                                 *)
(***************************************************************************)
EXTENDS Naturals, SequencesExt, FiniteSetsExt

CONSTANTS
  PerPage, MaxPages,  \* EVENTS_PER_PAGE, MAX_PAGES of list_room_files
  Ahead, MostRaw,     \* getRecentRoomMessages asks for limit * Ahead events, MostRaw at most
  Limits,             \* limits the model may give
  MaxRoom,            \* bound: events in the room
  MaxRows,            \* bound: rows the registry returns
  Words               \* words a summary may have

VARIABLES
  room,     \* its events, the oldest first
  tool,     \* the tool that is being called
  limit, media, \* its arguments
  top, pos, \* the room's length when the tool was called; what is still to be read
  pages,
  out,      \* what it shows
  cut,      \* messages a page had read and had no place for
  given     \* what the registry returned, or the chunks of the memory

vars == <<room, tool, limit, media, top, pos, pages, out, cut, given>>

(* A file, an image, a text, the same in a thread; one that cannot be       *)
(* decrypted, or is no message, or is the oracle's own bookkeeping.         *)
Kinds == {"file", "image", "text", "reply", "sealed"}
Media == {"file", "image"}
Readable == {"file", "image", "text", "reply"}

Nothing == "nothing"

Init ==
  /\ room = <<>> /\ tool = Nothing
  /\ limit = 0 /\ media = Nothing
  /\ top = 0 /\ pos = 0 /\ pages = 0
  /\ out = <<>> /\ cut = {} /\ given = <<>>

(* Searches do not look at the room's events: they are made in an empty one. *)
Searches == {"search_skills", "search_channel_memory"}

Post ==
  /\ Len(room) < MaxRoom /\ tool \notin Searches
  /\ \E kind \in Kinds : room' = Append(room, kind)
  /\ UNCHANGED <<tool, limit, media, top, pos, pages, out, cut, given>>

(* The newest events before a position, the newest first.                   *)
Chunk(from, n) ==
  LET first == IF from > n THEN from - n + 1 ELSE 1
  IN Reverse([i \in 1..(from - first + 1) |-> first + i - 1])
Rest(from, n) == IF from > n THEN from - n ELSE 0

Begin(name, l, m) ==
  /\ tool = Nothing
  /\ tool' = name /\ limit' = l /\ media' = m
  /\ top' = Len(room) /\ pos' = Len(room) /\ pages' = 0
  /\ UNCHANGED <<room, out, cut, given>>

------------------------------------------------------------------------------
(* list_room_files: up to MaxPages pages, until there are enough files, the *)
(* page is empty, or the server has no token for a next one.                *)
ListRoomFiles == \E l \in Limits, m \in Media \cup {Nothing} : Begin("list_room_files", l, m)

Wanted(i) == room[i] \in (IF media = Nothing THEN Media ELSE {media})

Files(events) == SelectSeq(events, Wanted)
FirstOf(s, n) == SubSeq(s, 1, IF Len(s) < n THEN Len(s) ELSE n)

More == pages < MaxPages /\ Len(out) < limit /\ pos > 0

FilesPage ==
  /\ tool = "list_room_files" /\ More
  /\ out' = FirstOf(out \o Files(Chunk(pos, PerPage)), limit)
  /\ pos' = Rest(pos, PerPage)
  /\ pages' = pages + 1
  /\ UNCHANGED <<room, tool, limit, media, top, cut, given>>

------------------------------------------------------------------------------
(***************************************************************************)
(* get_room_messages_range, called again and again with the token of the   *)
(* page before.  A page is of more events than messages were asked for, as *)
(* some cannot be read; its token is that of its last event, also when     *)
(* the messages before it were enough.  The tool then keeps those of one   *)
(* thread, when it was asked for one.                                      *)
(***************************************************************************)
GetRoomMessagesRange ==
  \E l \in Limits, m \in {Nothing, "reply"} : Begin("get_room_messages_range", l, m)

Read(i) == room[i] \in Readable
InThread(i) == media = Nothing \/ room[i] = media
RawLimit(l) == IF l * Ahead < MostRaw THEN l * Ahead ELSE MostRaw

MessagesPage ==
  /\ tool = "get_room_messages_range" /\ pos > 0
  /\ \E l \in Limits :
       LET read == SelectSeq(Chunk(pos, RawLimit(l)), Read)
           shown == Reverse(FirstOf(read, l))
       IN /\ out' = SelectSeq(shown, InThread) \o out
          /\ cut' = cut \cup (ToSet(read) \ ToSet(shown))
          /\ pos' = Rest(pos, RawLimit(l))
  /\ pages' = pages + 1
  /\ UNCHANGED <<room, tool, limit, media, top, given>>

------------------------------------------------------------------------------
(* search_skills: of the rows with the same name one is kept.               *)
Capsules == [name : {"a", "b"}, private : BOOLEAN, created : 0..2]
Undated(c) == c.created = 0

Wins(incoming, existing) ==
  \/ incoming.private /\ ~existing.private
  \/ /\ incoming.private = existing.private
     /\ ~Undated(incoming) /\ ~Undated(existing) /\ incoming.created > existing.created

KeepOne(kept, row) ==
  LET same == {i \in DOMAIN kept : kept[i].name = row.name} IN
  IF same = {} THEN Append(kept, row)
  ELSE LET i == CHOOSE i \in same : TRUE
       IN IF Wins(row, kept[i]) THEN [kept EXCEPT ![i] = row] ELSE kept

SearchRegistryCapsules(rows) == FoldLeft(KeepOne, <<>>, rows)
IsPrivate(c) == c.private
IsPublic(c) == ~c.private
PrivateFirst(rows) == SelectSeq(rows, IsPrivate) \o SelectSeq(rows, IsPublic)

SearchSkills ==
  /\ tool = Nothing /\ room = <<>>
  /\ tool' = "search_skills"
  /\ \E n \in 0..MaxRows : \E rows \in [1..n -> Capsules] :
       /\ given' = rows
       /\ out' = PrivateFirst(SearchRegistryCapsules(rows))
  /\ UNCHANGED <<room, limit, media, top, pos, pages, cut>>

------------------------------------------------------------------------------
(***************************************************************************)
(* search_channel_memory: full-text search finds a chunk with any of the   *)
(* words, in an order of its own; where it fails (no such index, a query   *)
(* it cannot parse), LIKE finds those with all of them, the newest first.  *)
(* recall_channel_memory, and a search for nothing, show the newest.       *)
(***************************************************************************)
Newest(ids, n) == FirstOf(Reverse(SetToSortSeq(ids, <)), n)
RecentChunks(chunks, n) == Newest(DOMAIN chunks, n)

SearchChunks(chunks, query, n) ==
  LET any == {i \in DOMAIN chunks : chunks[i] \cap query # {}}
      all == {i \in DOMAIN chunks : query \subseteq chunks[i]}
      best == IF Cardinality(any) < n THEN Cardinality(any) ELSE n
  IN IF query = {} THEN {RecentChunks(chunks, n)}
     ELSE {Newest(all, n)} \cup {s \in SetToAllKPermutations(any) : Len(s) = best}

SearchChannelMemory ==
  /\ tool = Nothing /\ room = <<>>
  /\ tool' = "search_channel_memory"
  /\ \E n \in 0..MaxRows : \E chunks \in [1..n -> SUBSET Words] :
       \E query \in SUBSET Words, l \in Limits :
         /\ given' = [chunks |-> chunks, query |-> query]
         /\ limit' = l
         /\ out' \in SearchChunks(chunks, query, l)
  /\ UNCHANGED <<room, media, top, pos, pages, cut>>

Next ==
  \/ Post
  \/ ListRoomFiles \/ FilesPage
  \/ GetRoomMessagesRange \/ MessagesPage
  \/ SearchSkills \/ SearchChannelMemory

Spec == Init /\ [][Next]_vars

------------------------------------------------------------------------------
(***************************************************************************)
(* list_room_files shows the newest files of the room as it was when it    *)
(* was called, each once, as many as asked for, of those within its reach  *)
(* of MaxPages pages, whatever is posted in between.                       *)
(***************************************************************************)
NewestFiles ==
  tool = "list_room_files" /\ ~More =>
    out = FirstOf(Files(Chunk(top, MaxPages * PerPage)), limit)

(***************************************************************************)
(* Pages of messages follow each other: what was shown is in the order it  *)
(* was written and shown once, and of the messages between the first page  *)
(* and the last only those are missing which a page had read beyond its    *)
(* limit: its token skips them.                                            *)
(***************************************************************************)
PagesFollow ==
  tool = "get_room_messages_range" =>
    /\ \A i, j \in DOMAIN out : i < j => out[i] < out[j]
    /\ ToSet(out) = {i \in ((pos + 1)..top) \ cut : Read(i) /\ InThread(i)}

(* search_skills ("the user's own skill always wins"): each name once, with *)
(* a private row if there is one, and no newer row of the same kind.        *)
OwnSkillWins ==
  tool = "search_skills" =>
    /\ {c.name : c \in ToSet(out)} = {c.name : c \in ToSet(given)}
    /\ \A i \in DOMAIN out :
         /\ \A j \in DOMAIN out : i < j => out[i].name # out[j].name /\ (out[j].private => out[i].private)
         /\ out[i] \in ToSet(given)
         /\ \A c \in ToSet(given) : c.name = out[i].name => ~Wins(c, out[i])

(* A chunk that has every word is found however the search is made, unless  *)
(* as many as were asked for are; and what is found has one of them.        *)
AllWordsFound ==
  tool = "search_channel_memory" =>
    /\ Len(out) <= limit /\ Cardinality(ToSet(out)) = Len(out)
    /\ Len(out) < limit =>
         {i \in DOMAIN given.chunks : given.query \subseteq given.chunks[i]} \subseteq ToSet(out)
    /\ given.query # {} => \A i \in ToSet(out) : given.chunks[i] \cap given.query # {}
=============================================================================
