--------------------------- MODULE TelegramWindows ---------------------------
(***************************************************************************)
(* What a TelegramAdapter remembers of a community: the sliding windows of *)
(* src/truepresence/adapters/telegram.py, and the detectors over them.     *)
(* Updates carry Telegram's dates (whole seconds); the webhook may bring   *)
(* them late, twice, or with an edit's old date, and each is counted where *)
(* the windows stand.  A tenant whose configuration changes gets a new     *)
(* adapter.  Lists are shorter than the deques' maxlen.                    *)
(***************************************************************************)
EXTENDS Integers, Sequences, FiniteSets

CONSTANTS
  Member, Chat,
  MaxDate,     \* dates run from 1, for a missing one is the current time
  Minute,      \* the window of joins, messages and media: 60 s
  Soon,        \* a first post is instant, and two members post together: 3 s
  MediaSoon,   \* the same of media: 10 s
  MessageGap,         \* between two messages of a burst: 2 s
  ManyJoins, ManyPeers, ManyChats, ManyMessages, \* 5, 2, 3, 5
  MaxUpdates   \* bound on updates

ASSUME WindowsAssumption ==
  MaxDate \in Nat /\ Minute \in Nat /\ Soon \in Nat /\ MediaSoon \in Nat /\ Soon <= Minute

VARIABLES
  joinedAt,     \* _user_chat_join_times
  first,        \* _user_chat_first_message_ms, _user_chat_first_media_ms
  chatJoins, chatMessages, chatMedia,   \* entries of a chat
  userMessages, userMedia,              \* entries of a member, from every chat
  groups,       \* _user_joined_groups
  event,        \* what parse_update made of the last update
  updates       \* history: the updates this adapter has had

windowsVars == <<joinedAt, first, chatJoins, chatMessages, chatMedia,
                 userMessages, userMedia, groups, event, updates>>

Never == -1
Date == 1..MaxDate
PostKind == {"message", "media"}
Place == Member \X Chat

NoEvent == [joined |-> 0, hops |-> 0, messages |-> 0, peers |-> 0, media |-> 0,
            mediaPeers |-> 0, burst |-> 0, signals |-> {}]

WindowsInit ==
  /\ joinedAt = [p \in Place |-> Never]
  /\ first = [a \in PostKind |-> [p \in Place |-> Never]]
  /\ chatJoins = [c \in Chat |-> <<>>]
  /\ chatMessages = [c \in Chat |-> <<>>]
  /\ chatMedia = [c \in Chat |-> <<>>]
  /\ userMessages = [u \in Member |-> <<>>]
  /\ userMedia = [u \in Member |-> <<>>]
  /\ groups = [u \in Member |-> {}]
  /\ event = NoEvent
  /\ updates = <<>>

\* Mutant: the entry at the window's edge goes too.
PrunedBeyond(s, from) ==
  LET kept == {i \in DOMAIN s : s[i].at > from} IN
  IF kept = {} THEN <<>> ELSE SubSeq(s, CHOOSE i \in kept : \A j \in kept : i <= j, Len(s))

\* while recent and recent[0] < cutoff: recent.popleft()
Pruned(s, from) ==
  LET kept == {i \in DOMAIN s : s[i].at >= from} IN
  IF kept = {} THEN <<>> ELSE SubSeq(s, CHOOSE i \in kept : \A j \in kept : i <= j, Len(s))

\* len({peer_id for _, peer_id in recent if peer_id != user_id})
Peers(s, u) == Cardinality({s[i].by : i \in DOMAIN s} \ {u})

Burst(s, gap) == Cardinality({i \in 1..(Len(s) - 1) : s[i + 1].at - s[i].at <= gap})

CommunityReason ==
  {"instant_post_after_join", "message_burst_pattern", "synchronized_posting_cluster",
   "coordinated_join_pattern", "repeat_group_hopping_pattern"}

\* The detectors.  A latency, once it is known, raises its signal with every later
\* message; links are kept and judged as media are; the cadence is left out.
Detected(e, latency) ==
  {r \in CommunityReason :
     CASE r = "instant_post_after_join" -> latency # Never /\ latency <= Soon
       [] r = "message_burst_pattern" ->
            e.messages >= ManyMessages /\ e.burst >= ManyMessages - 1
       [] r = "synchronized_posting_cluster" -> e.peers >= ManyPeers
       [] r = "coordinated_join_pattern" -> e.joined >= ManyJoins
       [] r = "repeat_group_hopping_pattern" -> e.hops >= ManyChats}

\* _record_join_metadata
RecordJoin(u, c, t) ==
  /\ joinedAt' = [joinedAt EXCEPT ![<<u, c>>] = t]
  /\ first' = [a \in PostKind |-> [first[a] EXCEPT ![<<u, c>>] = Never]]
  /\ chatJoins' = [chatJoins EXCEPT ![c] = Pruned(Append(@, [at |-> t, by |-> u]), t - Minute)]
  /\ groups' = [groups EXCEPT ![u] = @ \cup {c}]

\* _parse_chat_member: a join, or another change of a member, which is only counted
\* over.
ParseChatMember(u, c, t, joins) ==
  LET e == [NoEvent EXCEPT !.joined = Len(chatJoins'[c]), !.hops = Cardinality(groups'[u])]
  IN
  /\ IF joins THEN RecordJoin(u, c, t)
     ELSE /\ chatJoins' = [chatJoins EXCEPT ![c] = Pruned(@, t - Minute)]
          /\ UNCHANGED <<joinedAt, first, groups>>
  /\ event' = [e EXCEPT !.signals = Detected(e, Never)]
  /\ updates' = Append(updates, [kind |-> IF joins THEN "join" ELSE "other",
                                 who |-> u, chat |-> c, at |-> t])
  /\ UNCHANGED <<chatMessages, chatMedia, userMessages, userMedia>>

Latency(p, t) == IF t > joinedAt[p] THEN t - joinedAt[p] ELSE 0

\* _first_action_latency_ms
FirstAction(p, t, kinds) ==
  first' = [a \in PostKind |->
    IF a \in kinds /\ joinedAt[p] # Never /\ first[a][p] = Never
    THEN [first[a] EXCEPT ![p] = Latency(p, t)] ELSE first[a]]

\* _parse_message: the member's own times, then the chat's, then those of media.
\* A provider asked about the media may raise; by then all of it is recorded.
ParseMessage(u, c, t, kinds) ==
  LET mine == [at |-> t, by |-> u]
      mates == Pruned(chatMessages[c], t - Soon)
      mediaMates == Pruned(chatMedia[c], t - MediaSoon)
      media == "media" \in kinds
      e == [NoEvent EXCEPT
              !.joined = Len(chatJoins'[c]),
              !.hops = Cardinality(groups[u]),
              !.messages = Len(userMessages'[u]),
              !.burst = Burst(userMessages'[u], MessageGap),
              !.peers = Peers(mates, u),
              !.media = Len(userMedia'[u]),
              !.mediaPeers = IF media THEN Peers(mediaMates, u) ELSE 0]
  IN
  /\ userMessages' = [userMessages EXCEPT ![u] = Pruned(Append(@, mine), t - Minute)]
  /\ FirstAction(<<u, c>>, t, kinds)
  /\ chatMessages' = [chatMessages EXCEPT ![c] = Pruned(Append(mates, mine), t - Minute)]
  /\ chatJoins' = [chatJoins EXCEPT ![c] = Pruned(@, t - Minute)]
  /\ userMedia' = [userMedia EXCEPT ![u] =
       Pruned(IF media THEN Append(@, mine) ELSE @, t - Minute)]
  /\ chatMedia' = [chatMedia EXCEPT ![c] =
       IF media THEN Pruned(Append(mediaMates, mine), t - Minute) ELSE mediaMates]
  /\ \/ event' = [e EXCEPT !.signals = Detected(e, first'["message"][<<u, c>>])]
     \/ media /\ event' = NoEvent
  /\ updates' = Append(updates, [kind |-> IF media THEN "media" ELSE "message",
                                 who |-> u, chat |-> c, at |-> t])
  /\ UNCHANGED <<joinedAt, groups>>

\* An update as Telegram sends it, sends it again, or sends it late.
ParseUpdate ==
  /\ Len(updates) < MaxUpdates
  /\ \E u \in Member, c \in Chat, t \in Date :
       \/ \E joins \in BOOLEAN : ParseChatMember(u, c, t, joins)
       \/ \E kinds \in {{"message"}, PostKind} : ParseMessage(u, c, t, kinds)

\* update_tenant_config drops the tenant's adapter, and with it every window.
NewAdapter ==
  /\ updates # <<>>
  /\ joinedAt' = [p \in Place |-> Never]
  /\ first' = [a \in PostKind |-> [p \in Place |-> Never]]
  /\ chatJoins' = [c \in Chat |-> <<>>]
  /\ chatMessages' = [c \in Chat |-> <<>>]
  /\ chatMedia' = [c \in Chat |-> <<>>]
  /\ userMessages' = [u \in Member |-> <<>>]
  /\ userMedia' = [u \in Member |-> <<>>]
  /\ groups' = [u \in Member |-> {}]
  /\ event' = NoEvent
  /\ updates' = <<>>

WindowsNext == ParseUpdate \/ NewAdapter
WindowsSpec == WindowsInit /\ [][WindowsNext]_windowsVars

(***************************************************************************)
(* Properties                                                              *)
(***************************************************************************)
WindowsTypeOK ==
  /\ joinedAt \in [Place -> Date \cup {Never}]
  /\ first \in [PostKind -> [Place -> 0..MaxDate \cup {Never}]]
  /\ \A c \in Chat : \A w \in {chatJoins[c], chatMessages[c], chatMedia[c]} :
       w \in Seq([at : Date, by : Member])
  /\ \A u \in Member : \A w \in {userMessages[u], userMedia[u]} :
       w \in Seq([at : Date, by : {u}])
  /\ groups \in [Member -> SUBSET Chat]
  /\ event.signals \subseteq CommunityReason

Last == updates[Len(updates)]
Ordered == \A i \in 1..(Len(updates) - 1) : updates[i].at <= updates[i + 1].at
Newest == \A i \in DOMAIN updates : updates[i].at <= Last.at

\* The updates of these kinds that fall within a window before the last one.
Within(kinds, span) ==
  {i \in DOMAIN updates : updates[i].kind \in kinds /\ updates[i].at >= Last.at - span}

\* The windows of the last update count what lies within them: exactly, when the
\* updates came in the order of their dates (one delivered again counts again);
\* and nothing less for an update newer than all, however late others came.
CountsCover ==
  updates # <<>> /\ event # NoEvent /\ Newest =>
    LET joined == Cardinality({i \in Within({"join"}, Minute) : updates[i].chat = Last.chat})
        sent == Cardinality({i \in Within(PostKind, Minute) : updates[i].who = Last.who})
        near == {updates[i].who : i \in {j \in Within(PostKind, Soon) : updates[j].chat = Last.chat}}
                  \ {Last.who}
    IN /\ event.joined >= joined /\ (Ordered => event.joined = joined)
       /\ Last.kind \in PostKind =>
            /\ event.messages >= sent /\ (Ordered => event.messages = sent)
            /\ event.peers >= Cardinality(near) /\ (Ordered => event.peers = Cardinality(near))

\* synchronized_posting_cluster, "several distinct peers": whatever the order, and
\* however often an update came, as many others did post in that chat.
PeersAreDistinct ==
  LET others(kinds) == {updates[i].who : i \in {j \in DOMAIN updates :
                          updates[j].kind \in kinds /\ updates[j].chat = Last.chat}} \ {Last.who}
  IN updates # <<>> =>
       /\ event.peers <= Cardinality(others(PostKind))
       /\ event.mediaPeers <= Cardinality(others({"media"}))

\* "First observed action followed the join event": the latency kept of a member is
\* of the first post that came after the last join of his that came.
FirstActionIsFirst ==
  \A p \in Place : \A a \in PostKind :
    LET of(kinds) == {i \in DOMAIN updates : <<updates[i].who, updates[i].chat>> = p
                                               /\ updates[i].kind \in kinds}
        posts == {i \in of({"media"} \cup {a}) : \A j \in of({"join"}) : j < i}
    IN IF of({"join"}) = {} \/ posts = {} THEN first[a][p] = Never
       ELSE LET i == CHOOSE i \in posts : \A j \in posts : i <= j
            IN first[a][p] = Latency(p, updates[i].at)

\* What the community detectors are told is what happened.
WindowsAreTrue == CountsCover /\ PeersAreDistinct /\ FirstActionIsFirst
=============================================================================
