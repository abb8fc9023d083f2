-------------------------- MODULE PrintDeskProofs --------------------------
(***************************************************************************)
(* Proofs about PrintDesk: for any number of boards, cards, chips and polls,   *)
(* any buffer of the hub, and moves, streams, polls and encodes in any         *)
(* interleaving, a board left alone shows where the cards are, and a chip      *)
(* opens the tag that records it.                                           *)
(***************************************************************************)
EXTENDS PrintDesk, SequenceTheorems, TLAPS

-----------------------------------------------------------------------------
(* Types.                                                                   *)
Frame == [card : Cards, stage : Stages]
BoardRow ==
  [cards : [Cards -> Stages], live : BOOLEAN, feed : {Null} \cup Seq(Frame), missed : SUBSET Cards,
   error : BOOLEAN]
Tag == [card : Cards, status : {"UNENCODED", "ENCODED"}, uid : Chips \cup {Null}]
SheetRow ==
  [card : Cards, phase : {"preparing", "ready", "prepareError"}, tag : Nat \cup {Null},
   uid : Chips \cup {Null}, submitting : BOOLEAN]
CallRow ==
  [kind : {"poll", "move", "prepare", "confirm"}, board : Boards \cup {Null}, card : Cards \cup {Null},
   step : {"sent", "minting", "committed", "done"}, to : Stages \cup {Null}, from : Stages \cup {Null},
   uid : Chips \cup {Null}, result : {Null} \cup Nat \cup [Cards -> Stages], since : SUBSET Cards]
Past == [moves : Nat, blips : Nat, raced : SUBSET Cards, doubled : SUBSET Cards]

\* What the proofs take of the constants.
PrintConstants ==
  /\ Tagged \subseteq Cards /\ DropTargets \subseteq Stages /\ HubBuffer \in Nat
  /\ Null \notin Boards \cup Cards \cup Nat \cup Seq(Frame) \cup SheetRow

(* What a call of each kind carries, and when.                               *)
Fits(k) ==
  /\ k \in CallRow
  /\ IF k.kind = "poll"
     THEN /\ k.board \in Boards /\ k.card = Null /\ k.step \in {"sent", "done"}
          /\ k.step = "done" => k.result \in [Cards -> Stages]
     ELSE k.card \in Cards
  /\ k.kind = "move" =>
       /\ k.board \in Boards /\ k.to \in Stages /\ k.from \in Stages /\ k.step # "minting"
       /\ k.card \in Tagged \/ k.to # "NFC_ENCODE"
  /\ k.kind = "prepare" =>
       /\ k.board \in Boards
       /\ k.step \in {"committed", "done"} => k.to \in Stages /\ k.result \in Nat
  /\ k.kind = "confirm" =>
       k.uid \in Chips /\ k.step # "minting" /\ (k.step # "sent" => k.to = "PACKING")

Typed ==
  /\ cards \in [Cards -> Stages] /\ \A c \in Cards \ Tagged : cards[c] # "NFC_ENCODE"
  /\ tags \in Seq(Tag) /\ chips \in [Chips -> Nat \cup {Null}]
  /\ board \in [Boards -> BoardRow] /\ \A b \in Boards : board[b].feed # Null => Len(board[b].feed) <= HubBuffer
  /\ sheet \in [Boards -> {Null} \cup SheetRow]
  /\ past \in Past
  /\ \A k \in calls : Fits(k)
  /\ \A c \in Cards : TagsOf(c) # {} => \E t \in TagsOf(c) : \A o \in TagsOf(c) : t <= o

-----------------------------------------------------------------------------
LEMMA StagesAre == Stages = {"NEED_PRINT", "PRINTING", "NFC_ENCODE", "PACKING", "SHIPPED"}
<1>1. DOMAIN PRINT_STAGES = 1 .. 5  BY DEF PRINT_STAGES
<1>2. \A i \in 1 .. 5 : i = 1 \/ i = 2 \/ i = 3 \/ i = 4 \/ i = 5  OBVIOUS
<1>3. QED  BY <1>1, <1>2 DEF Stages, PRINT_STAGES

\* The column after this one, and no encode column for a card without a tag.
LEMMA NextColumn ==
  ASSUME NEW c \in Cards, NEW stage, NEW to \in nextStage(stage, c)
  PROVE  to \in Stages /\ (c \in Tagged \/ to # "NFC_ENCODE")
<1>1. PICK j \in 1 .. Len(stagesFor(c)) - 1 : to = stagesFor(c)[j + 1]  BY DEF nextStage
<1>2. CASE c \in Tagged
  <2>1. j \in 1 .. 4 /\ to = PRINT_STAGES[j + 1]  BY <1>1, <1>2 DEF stagesFor, PRINT_STAGES
  <2>2. j = 1 \/ j = 2 \/ j = 3 \/ j = 4  BY <2>1
  <2>3. QED  BY <2>1, <2>2, <1>2, StagesAre DEF PRINT_STAGES
<1>3. CASE c \notin Tagged
  <2> DEFINE skip == <<"NEED_PRINT", "PRINTING", "PACKING", "SHIPPED">>
  <2>1. j \in 1 .. 3 /\ to = skip[j + 1]  BY <1>1, <1>3 DEF stagesFor
  <2>2. j = 1 \/ j = 2 \/ j = 3  BY <2>1
  <2>3. QED  BY <2>1, <2>2, StagesAre
<1>4. QED  BY <1>2, <1>3

LEMMA CallFits ==
  ASSUME NEW b \in Boards \cup {Null}, NEW c \in Cards \cup {Null},
         NEW kind \in {"poll", "move", "prepare", "confirm"}
  PROVE  /\ Call(kind, b, c) \in CallRow
         /\ Call(kind, b, c).kind = kind /\ Call(kind, b, c).board = b /\ Call(kind, b, c).card = c
         /\ Call(kind, b, c).step = "sent" /\ Call(kind, b, c).since = {}
  BY DEF Call, CallRow

(* What Behind does to the calls: it marks polls that were read.              *)
LEMMA BehindMarks ==
  ASSUME NEW b, NEW c \in Cards, \A k \in calls : Fits(k), NEW l \in Behind(b, c)
  PROVE  \/ l \in calls /\ (l.kind = "poll" /\ l.step = "done" => b # Null /\ l.board # b)
         \/ \E k \in calls : /\ k.kind = "poll" /\ k.step = "done" /\ Fits(l)
                             /\ l.kind = "poll" /\ l.step = "done" /\ l.board = k.board
                             /\ l.result = k.result /\ l.since = k.since \cup {c} /\ l.card = Null
<1>1. PICK k \in calls : l = IF k.kind = "poll" /\ k.step = "done" /\ (b = Null \/ k.board = b)
                              THEN [k EXCEPT !.since = @ \cup {c}] ELSE k
  BY DEF Behind
<1>2. CASE k.kind = "poll" /\ k.step = "done" /\ (b = Null \/ k.board = b)
  <2>1. k \in CallRow /\ Fits(k)  BY DEF Fits
  <2>2. /\ l \in CallRow /\ l.kind = k.kind /\ l.board = k.board /\ l.card = k.card /\ l.step = k.step
        /\ l.to = k.to /\ l.from = k.from /\ l.uid = k.uid /\ l.result = k.result
        /\ l.since = k.since \cup {c}
    BY <1>1, <1>2, <2>1 DEF CallRow
  <2>3. Fits(l) /\ l.card = Null  BY <2>1, <2>2, <1>2 DEF Fits
  <2>4. QED  BY <1>2, <2>2, <2>3
<1>3. CASE ~(k.kind = "poll" /\ k.step = "done" /\ (b = Null \/ k.board = b))  BY <1>1, <1>3
<1>4. QED  BY <1>2, <1>3

\* Calls of a card are left as they are.
LEMMA BehindKeeps ==
  ASSUME NEW b, NEW c \in Cards, NEW k \in calls, k.kind # "poll"
  PROVE  k \in Behind(b, c)
  BY DEF Behind

LEMMA BehindFits ==
  ASSUME NEW b, NEW c \in Cards, \A k \in calls : Fits(k)
  PROVE  \A l \in Behind(b, c) : Fits(l)
  BY BehindMarks

-----------------------------------------------------------------------------
(* Every step keeps the types.                                              *)
LEMMA TypedInit == PrintConstants /\ PrintInit => Typed
<1> SUFFICES ASSUME PrintConstants, PrintInit PROVE Typed  OBVIOUS
<1>1. Opened \in BoardRow  BY DEF PrintInit, Opened, BoardRow
<1>2. board \in [Boards -> BoardRow] /\ \A b \in Boards : board[b].feed = Null
  BY <1>1 DEF PrintInit, Opened
<1>3. tags \in Seq(Tag) /\ \A c \in Cards : TagsOf(c) = {}  BY DEF PrintInit, TagsOf
<1>4. past \in Past  BY DEF PrintInit, Past
<1>5. QED  BY <1>2, <1>3, <1>4 DEF PrintInit, Typed

LEMMA BoardParts ==
  ASSUME Typed, NEW b \in Boards
  PROVE  /\ board[b] \in BoardRow /\ board[b].cards \in [Cards -> Stages] /\ board[b].live \in BOOLEAN
         /\ board[b].feed \in {Null} \cup Seq(Frame) /\ board[b].missed \in SUBSET Cards
         /\ board[b].error \in BOOLEAN
  BY DEF Typed, BoardRow

\* What a change of the boards has to keep, the rest being as it was.
LEMMA TypedBoards ==
  ASSUME PrintConstants, Typed, UNCHANGED <<cards, tags, chips, sheet>>, past' \in Past,
         \A k \in calls' : Fits(k),
         NEW b \in Boards, NEW row \in BoardRow, board' = [board EXCEPT ![b] = row],
         row.feed # Null => Len(row.feed) <= HubBuffer
  PROVE  Typed'
<1>1. board' \in [Boards -> BoardRow]  BY DEF Typed
<1>2. \A d \in Boards : board'[d] = IF d = b THEN row ELSE board[d]  BY DEF Typed
<1>3. \A d \in Boards : board'[d].feed # Null => Len(board'[d].feed) <= HubBuffer  BY <1>2 DEF Typed
<1>4. \A c \in Cards : TagsOf(c)' = TagsOf(c)  BY DEF TagsOf
<1>5. QED  BY <1>1, <1>3, <1>4 DEF Typed

LEMMA RacedTyped ==
  ASSUME Typed, NEW c \in Cards, NEW early \in BOOLEAN
  PROVE  /\ Raced(early, c) \in Past
         /\ Raced(early, c).moves = past.moves /\ Raced(early, c).doubled = past.doubled
         /\ Raced(early, c).raced = past.raced \cup (IF early THEN {c} ELSE {})
         /\ [Raced(early, c) EXCEPT !.moves = @ + 1] \in Past
         /\ [Raced(early, c) EXCEPT !.moves = @ + 1].doubled = past.doubled
         /\ [Raced(early, c) EXCEPT !.moves = @ + 1].raced = past.raced \cup (IF early THEN {c} ELSE {})
<1>1. past \in Past  BY DEF Typed
<1> DEFINE more == IF early THEN {c} ELSE {}
<1>2. more \in SUBSET Cards  OBVIOUS
<1>3. Raced(early, c) = [past EXCEPT !.raced = @ \cup more]  BY DEF Raced
<1> HIDE DEF more
<1>4. Raced(early, c) \in Past /\ Raced(early, c).moves = past.moves /\ Raced(early, c).doubled = past.doubled
        /\ Raced(early, c).raced = past.raced \cup more
  BY <1>1, <1>2, <1>3 DEF Past
<1>5. /\ [Raced(early, c) EXCEPT !.moves = @ + 1] \in Past
      /\ [Raced(early, c) EXCEPT !.moves = @ + 1].doubled = past.doubled
      /\ [Raced(early, c) EXCEPT !.moves = @ + 1].raced = past.raced \cup more
  BY <1>4 DEF Past
<1>6. QED  BY <1>4, <1>5 DEF more

LEMMA TypedStream ==
  ASSUME PrintConstants, Typed, NEW b \in Boards,
         onopen(b) \/ subscribe(b) \/ onerror(b) \/ onStage(b) \/ tick(b) \/ reload(b)
  PROVE  Typed'
<1> USE BoardParts
<1>1. CASE onopen(b)
  <2>1. board' = [board EXCEPT ![b] = [board[b] EXCEPT !.live = TRUE]]  BY <1>1 DEF onopen
  <2>2. [board[b] EXCEPT !.live = TRUE] \in BoardRow /\ [board[b] EXCEPT !.live = TRUE].feed = board[b].feed
    BY DEF BoardRow
  <2>3. QED  BY <1>1, <2>1, <2>2, TypedBoards DEF onopen, Typed
<1>2. CASE subscribe(b)
  <2>1. board' = [board EXCEPT ![b] = [board[b] EXCEPT !.feed = <<>>]]  BY <1>2 DEF subscribe
  <2>2. <<>> \in Seq(Frame)  OBVIOUS
  <2>3. [board[b] EXCEPT !.feed = <<>>] \in BoardRow /\ [board[b] EXCEPT !.feed = <<>>].feed = <<>>
    BY <2>2 DEF BoardRow
  <2>4. 0 <= HubBuffer /\ past' \in Past /\ \A k \in calls' : Fits(k)
    BY <1>2 DEF subscribe, Typed, PrintConstants
  <2>5. QED  BY <1>2, <2>1, <2>3, <2>4, TypedBoards DEF subscribe
<1>3. CASE onerror(b)
  <2> DEFINE told == IF board[b].feed = Null THEN {} ELSE {board[b].feed[i].card : i \in DOMAIN board[b].feed}
             row == [board[b] EXCEPT !.live = FALSE, !.feed = Null, !.missed = @ \cup told]
  <2>1. told \in SUBSET Cards
    <3>1. CASE board[b].feed = Null  BY <3>1
    <3>2. CASE board[b].feed # Null
      <4> DEFINE feed == board[b].feed
      <4>1. feed \in Seq(Frame)  BY <3>2
      <4> HIDE DEF feed
      <4>2. \A i \in DOMAIN feed : feed[i] \in Frame  BY <4>1
      <4>3. \A i \in DOMAIN feed : feed[i].card \in Cards  BY <4>2 DEF Frame
      <4> QED  BY <3>2, <4>3 DEF feed
    <3>3. QED  BY <3>1, <3>2
  <2>2. board' = [board EXCEPT ![b] = row]  BY <1>3 DEF onerror
  <2> HIDE DEF told
  <2>3. row \in BoardRow /\ row.feed = Null  BY <2>1 DEF BoardRow
  <2>4. past' \in Past  BY <1>3 DEF onerror, Typed, Past
  <2>5. UNCHANGED <<cards, tags, chips, sheet>> /\ \A k \in calls' : Fits(k)  BY <1>3 DEF onerror, Typed
  <2> HIDE DEF row
  <2>6. row.feed # Null => Len(row.feed) <= HubBuffer  BY <2>3
  <2>7. QED  BY <2>2, <2>3, <2>4, <2>5, <2>6, TypedBoards
<1>4. CASE onStage(b)
  <2> DEFINE frame == Head(board[b].feed)
             row == [board[b] EXCEPT !.cards = [@ EXCEPT ![frame.card] = frame.stage], !.feed = Tail(@)]
  <2>1. board[b].feed \in Seq(Frame) /\ board[b].feed # <<>>  BY <1>4 DEF onStage
  <2>2. frame \in Frame /\ Tail(board[b].feed) \in Seq(Frame) /\ Len(Tail(board[b].feed)) <= Len(board[b].feed)
    BY <2>1
  <2>3. board' = [board EXCEPT ![b] = row]  BY <1>4 DEF onStage, mergeCard
  <2>4. frame.card \in Cards /\ frame.stage \in Stages  BY <2>2 DEF Frame
  <2>5. row \in BoardRow /\ row.feed = Tail(board[b].feed)  BY <2>2, <2>4 DEF BoardRow
  <2> HIDE DEF row
  <2>6. Len(row.feed) <= HubBuffer
    <3>1. Len(board[b].feed) <= HubBuffer  BY <1>4 DEF Typed, onStage
    <3>2. Len(board[b].feed) \in Nat /\ Len(Tail(board[b].feed)) \in Nat  BY <2>1, <2>2
    <3>3. QED  BY <2>2, <2>5, <3>1, <3>2 DEF PrintConstants
  <2>7. past' \in Past /\ \A k \in calls' : Fits(k)  BY <1>4 DEF onStage, Typed
  <2>8. UNCHANGED <<cards, tags, chips, sheet>>  BY <1>4 DEF onStage
  <2>9. QED  BY <2>3, <2>5, <2>6, <2>7, <2>8, TypedBoards
<1>5. CASE tick(b)
  <2>1. Fits(Call("poll", b, Null))  BY CallFits DEF Fits
  <2>2. \A k \in calls' : Fits(k)  BY <1>5, <2>1 DEF tick, Typed
  <2>3. \A c \in Cards : TagsOf(c)' = TagsOf(c)  BY <1>5 DEF tick, TagsOf
  <2>4. QED  BY <1>5, <2>2, <2>3 DEF tick, Typed
<1>6. CASE reload(b)
  <2>1. Opened \in BoardRow /\ Opened.feed = Null  BY DEF Opened, BoardRow, Typed
  <2>2. board' \in [Boards -> BoardRow] /\ sheet' \in [Boards -> {Null} \cup SheetRow]
    BY <1>6, <2>1 DEF reload, Typed
  <2>3. \A d \in Boards : board'[d] = IF d = b THEN Opened ELSE board[d]  BY <1>6 DEF reload, Typed
  <2>4. \A c \in Cards : TagsOf(c)' = TagsOf(c)  BY <1>6 DEF reload, TagsOf
  <2>5. QED  BY <1>6, <2>1, <2>2, <2>3, <2>4 DEF reload, Typed
<1>7. QED  BY <1>1, <1>2, <1>3, <1>4, <1>5, <1>6

\* What one call may become.
LEMMA Stepped ==
  ASSUME NEW k, Fits(k), NEW step \in {"minting", "committed", "done"}
  PROVE  LET l == [k EXCEPT !.step = step] IN
         /\ l \in CallRow /\ l.step = step
         /\ l.kind = k.kind /\ l.board = k.board /\ l.card = k.card /\ l.to = k.to /\ l.from = k.from
         /\ l.uid = k.uid /\ l.result = k.result /\ l.since = k.since
  BY DEF Fits, CallRow

LEMMA SteppedTo ==
  ASSUME NEW k, Fits(k), NEW to \in Stages
  PROVE  LET l == [k EXCEPT !.step = "committed", !.to = to] IN
         /\ l \in CallRow /\ l.step = "committed" /\ l.to = to
         /\ l.kind = k.kind /\ l.board = k.board /\ l.card = k.card /\ l.from = k.from
         /\ l.uid = k.uid /\ l.result = k.result /\ l.since = k.since
  BY DEF Fits, CallRow

LEMMA TypedPolls ==
  ASSUME PrintConstants, Typed, NEW k \in calls, refetchPrintQueue(k) \/ polled(k)
  PROVE  Typed'
<1>1. Fits(k) /\ k.kind = "poll"  BY DEF Typed, refetchPrintQueue, polled
<1>2. CASE refetchPrintQueue(k)
  <2> DEFINE l == [k EXCEPT !.step = "done", !.result = cards]
  <2>1. Fits(l)
    <3>1. k \in CallRow /\ cards \in [Cards -> Stages]  BY <1>1 DEF Fits, Typed
    <3>2. l \in CallRow /\ l.kind = "poll" /\ l.board = k.board /\ l.card = k.card /\ l.step = "done" /\ l.result = cards
      BY <3>1, <1>1 DEF CallRow
    <3>3. QED  BY <3>1, <3>2, <1>1 DEF Fits
  <2>2. calls' = (calls \ {k}) \cup {l}  BY <1>2 DEF refetchPrintQueue
  <2> HIDE DEF l
  <2>3. \A m \in calls' : Fits(m)  BY <2>1, <2>2 DEF Typed
  <2>4. \A c \in Cards : TagsOf(c)' = TagsOf(c)  BY <1>2 DEF refetchPrintQueue, TagsOf
  <2>5. QED  BY <1>2, <2>3, <2>4 DEF refetchPrintQueue, Typed
<1>3. CASE polled(k)
  <2> DEFINE row == [board[k.board] EXCEPT !.cards = k.result, !.missed = k.since]
  <2>1. k.board \in Boards /\ k.result \in [Cards -> Stages] /\ k.since \in SUBSET Cards
    BY <1>1, <1>3 DEF polled, Fits, CallRow
  <2>2. board' = [board EXCEPT ![k.board] = row]  BY <1>3 DEF polled
  <2>3. row \in BoardRow /\ row.feed = board[k.board].feed  BY <2>1, BoardParts DEF BoardRow
  <2>4. row.feed # Null => Len(row.feed) <= HubBuffer  BY <2>1, <2>3 DEF Typed
  <2>5. past' \in Past /\ \A m \in calls' : Fits(m)  BY <1>3 DEF polled, Typed
  <2> HIDE DEF row
  <2>6. QED  BY <1>3, <2>1, <2>2, <2>3, <2>4, <2>5, TypedBoards DEF polled
<1>4. QED  BY <1>2, <1>3

LEMMA MovesTyped ==
  ASSUME Typed, NEW b \in Boards, NEW c \in Cards, NEW to \in Stages, c \in Tagged \/ to # "NFC_ENCODE",
         NEW l, l = [Call("move", b, c) EXCEPT !.to = to, !.from = board[b].cards[c]]
  PROVE  /\ Fits(l) /\ l.kind = "move" /\ l.board = b /\ l.card = c /\ l.step = "sent"
         /\ l.to = to /\ l.from = board[b].cards[c]
<1> DEFINE call == Call("move", b, c)
<1>0. l = [call EXCEPT !.to = to, !.from = board[b].cards[c]]  OBVIOUS
<1>1. board[b].cards[c] \in Stages  BY BoardParts
<1>2. call \in CallRow /\ call.kind = "move" /\ call.board = b /\ call.card = c /\ call.step = "sent"
  BY CallFits
<1> HIDE DEF call
<1>3. /\ l \in CallRow /\ l.kind = "move" /\ l.board = b /\ l.card = c /\ l.step = "sent"
      /\ l.to = to /\ l.from = board[b].cards[c]
  BY <1>0, <1>1, <1>2 DEF CallRow
<1>4. Fits(l)  BY <1>1, <1>3 DEF Fits
<1>5. QED  BY <1>3, <1>4

\* The two ways to move a card are one.
LEMMA MoveIsAdvance ==
  ASSUME PrintConstants, NEW b \in Boards, NEW c \in Cards, onAdvance(b, c) \/ \E to \in DropTargets : onDragEnd(b, c, to)
  PROVE  \E to \in Stages : (c \in Tagged \/ to # "NFC_ENCODE") /\ advance(b, c, to)
<1>1. CASE onAdvance(b, c)  BY <1>1, NextColumn DEF onAdvance
<1>2. CASE \E to \in DropTargets : onDragEnd(b, c, to)  BY <1>2 DEF onDragEnd, PrintConstants
<1>3. QED  BY <1>1, <1>2

LEMMA TypedAdvance ==
  ASSUME PrintConstants, Typed, NEW b \in Boards, NEW c \in Cards, NEW to \in Stages,
         c \in Tagged \/ to # "NFC_ENCODE", advance(b, c, to)
  PROVE  Typed'
<1> DEFINE row == [board[b] EXCEPT !.cards = [@ EXCEPT ![c] = to], !.error = FALSE]
<1>1. board' = [board EXCEPT ![b] = row]  BY DEF advance
<1>2. row \in BoardRow /\ row.feed = board[b].feed  BY BoardParts DEF BoardRow
<1>3. row.feed # Null => Len(row.feed) <= HubBuffer  BY <1>2 DEF Typed
<1> DEFINE l == [Call("move", b, c) EXCEPT !.to = to, !.from = board[b].cards[c]]
<1>l. Fits(l)  BY MovesTyped
<1>c. calls' = calls \cup {l}  BY DEF advance
<1> HIDE DEF l
<1>4. \A k \in calls' : Fits(k)  BY <1>l, <1>c DEF Typed
<1>5. Early(b, c) \in BOOLEAN  BY DEF Early, Moving, Awaits
<1>6. past' \in Past  BY <1>5, RacedTyped DEF advance
<1> HIDE DEF row
<1>7. QED  BY <1>1, <1>2, <1>3, <1>4, <1>6, TypedBoards DEF advance

LEMMA TypedMoves ==
  ASSUME PrintConstants, Typed, NEW k \in calls, AdvancePrintJobStage(k) \/ advanced(k) \/ advanceFailed(k)
  PROVE  Typed'
<1>1. Fits(k) /\ k.kind = "move" /\ k.card \in Cards /\ k.board \in Boards /\ k.to \in Stages /\ k.from \in Stages
  BY DEF Typed, AdvancePrintJobStage, advanced, advanceFailed, Fits
<1>2. CASE AdvancePrintJobStage(k)
  <2> DEFINE l == [k EXCEPT !.step = "committed"]
  <2>1. Fits(l)  BY <1>1, Stepped DEF Fits
  <2>2. calls' = (Behind(Null, k.card) \ {k}) \cup {l}  BY <1>2 DEF AdvancePrintJobStage
  <2> HIDE DEF l
  <2>3. \A m \in calls' : Fits(m)  BY <1>1, <2>1, <2>2, BehindFits DEF Typed
  <2>4. cards' \in [Cards -> Stages] /\ \A c \in Cards \ Tagged : cards'[c] # "NFC_ENCODE"
    BY <1>1, <1>2 DEF AdvancePrintJobStage, Typed, Fits
  <2>5. \A c \in Cards : TagsOf(c)' = TagsOf(c)  BY <1>2 DEF AdvancePrintJobStage, TagsOf
  <2>6. QED  BY <1>2, <2>3, <2>4, <2>5 DEF AdvancePrintJobStage, Typed
<1>3. CASE advanced(k)
  <2> DEFINE row == [board[k.board] EXCEPT !.cards = [@ EXCEPT ![k.card] = k.to]]
  <2>1. board' = [board EXCEPT ![k.board] = row]  BY <1>3 DEF advanced, mergeCard
  <2>2. row \in BoardRow /\ row.feed = board[k.board].feed  BY <1>1, BoardParts DEF BoardRow
  <2>3. row.feed # Null => Len(row.feed) <= HubBuffer  BY <1>1, <2>2 DEF Typed
  <2>4. past' \in Past /\ \A m \in calls' : Fits(m)  BY <1>1, <1>3, BehindFits DEF advanced, Typed
  <2> HIDE DEF row
  <2>5. QED  BY <1>1, <1>3, <2>1, <2>2, <2>3, <2>4, TypedBoards DEF advanced
<1>4. CASE advanceFailed(k)
  <2> DEFINE row == [board[k.board] EXCEPT !.cards = [@ EXCEPT ![k.card] = k.from], !.error = TRUE]
  <2>1. board' = [board EXCEPT ![k.board] = row]  BY <1>4 DEF advanceFailed, revert
  <2>2. row \in BoardRow /\ row.feed = board[k.board].feed  BY <1>1, BoardParts DEF BoardRow
  <2>3. row.feed # Null => Len(row.feed) <= HubBuffer  BY <1>1, <2>2 DEF Typed
  <2>4. past' \in Past  BY <1>1, <1>4, RacedTyped DEF advanceFailed
  <2>5. \A m \in calls' : Fits(m)  BY <1>1, <1>4, BehindFits DEF advanceFailed, Typed
  <2> HIDE DEF row
  <2>6. QED  BY <1>1, <1>4, <2>1, <2>2, <2>3, <2>4, <2>5, TypedBoards DEF advanceFailed
<1>5. QED  BY <1>2, <1>3, <1>4

(* A pushed card lands in each feed that has room.                            *)
LEMMA Pushed ==
  ASSUME PrintConstants, Typed, NEW k \in calls, Announce(k)
  PROVE  /\ k.kind \in {"move", "prepare", "confirm"} /\ k.card \in Cards /\ k.to \in Stages
         /\ calls' = (calls \ {k}) \cup {[k EXCEPT !.step = "done"]} /\ Fits([k EXCEPT !.step = "done"])
         /\ \A b \in Boards :
              /\ board'[b] \in BoardRow /\ board'[b].cards = board[b].cards /\ board'[b].live = board[b].live
              /\ Hears(b) => /\ board[b].feed \in Seq(Frame)
                             /\ board'[b].feed = Append(board[b].feed, [card |-> k.card, stage |-> k.to])
                             /\ board'[b].missed = board[b].missed
              /\ ~Hears(b) => /\ board'[b].feed = board[b].feed
                              /\ board'[b].missed = board[b].missed \cup
                                   (IF b = k.board \/ k.kind = "prepare" THEN {} ELSE {k.card})
<1>1. Fits(k) /\ k \in CallRow  BY DEF Typed, Fits
<1>2. k.kind \in {"move", "prepare", "confirm"} /\ k.card \in Cards /\ k.to \in Stages
  BY <1>1, StagesAre DEF Announce, Fits, CallRow
<1>3. Fits([k EXCEPT !.step = "done"])  BY <1>1, <1>2, Stepped DEF Fits, Announce
<1>4. ASSUME NEW b \in Boards
      PROVE  /\ board'[b] \in BoardRow /\ board'[b].cards = board[b].cards /\ board'[b].live = board[b].live
             /\ Hears(b) => /\ board[b].feed \in Seq(Frame)
                            /\ board'[b].feed = Append(board[b].feed, [card |-> k.card, stage |-> k.to])
                            /\ board'[b].missed = board[b].missed
             /\ ~Hears(b) => /\ board'[b].feed = board[b].feed
                             /\ board'[b].missed = board[b].missed \cup
                                  (IF b = k.board \/ k.kind = "prepare" THEN {} ELSE {k.card})
  <2>1. board'[b] = IF Hears(b) THEN [board[b] EXCEPT !.feed = Append(@, [card |-> k.card, stage |-> k.to])]
                    ELSE IF b = k.board \/ k.kind = "prepare" THEN board[b]
                    ELSE [board[b] EXCEPT !.missed = @ \cup {k.card}]
    BY DEF Announce, broadcast
  <2>2. CASE Hears(b)
    <3>1. board[b].feed \in Seq(Frame)  BY <2>2, BoardParts DEF Hears
    <3>2. [card |-> k.card, stage |-> k.to] \in Frame  BY <1>2 DEF Frame
    <3>3. Append(board[b].feed, [card |-> k.card, stage |-> k.to]) \in Seq(Frame)  BY <3>1, <3>2
    <3>4. QED  BY <2>1, <2>2, <3>1, <3>3, BoardParts DEF BoardRow
  <2>3. CASE ~Hears(b)  BY <2>1, <2>3, <1>2, BoardParts DEF BoardRow
  <2>4. QED  BY <2>2, <2>3
<1>5. QED  BY <1>2, <1>3, <1>4 DEF Announce

LEMMA TypedAnnounce ==
  ASSUME PrintConstants, Typed, NEW k \in calls, Announce(k)
  PROVE  Typed'
<1> DEFINE l == [k EXCEPT !.step = "done"]
<1>l. calls' = (calls \ {k}) \cup {l} /\ Fits(l)  BY Pushed
<1> HIDE DEF l
<1>1. \A m \in calls' : Fits(m)  BY <1>l DEF Typed
<1>2. board' \in [Boards -> BoardRow]
  <2>1. board' = [b \in Boards |-> board'[b]]  BY DEF Announce, broadcast
  <2>2. QED  BY <2>1, Pushed
<1>3. ASSUME NEW b \in Boards, board'[b].feed # Null PROVE Len(board'[b].feed) <= HubBuffer
  <2>1. CASE Hears(b)
    <3>f. /\ board[b].feed \in Seq(Frame)
          /\ board'[b].feed = Append(board[b].feed, [card |-> k.card, stage |-> k.to])
      BY <2>1, Pushed
    <3>1. Len(board[b].feed) < HubBuffer /\ Len(board[b].feed) \in Nat  BY <2>1, <3>f DEF Hears
    <3>2. Len(board'[b].feed) = Len(board[b].feed) + 1  BY <3>f
    <3>3. QED  BY <3>1, <3>2 DEF PrintConstants
  <2>2. CASE ~Hears(b)  BY <1>3, <2>2, Pushed DEF Typed
  <2>3. QED  BY <2>1, <2>2
<1>4. \A c \in Cards : TagsOf(c)' = TagsOf(c)  BY DEF Announce, TagsOf
<1>5. QED  BY <1>1, <1>2, <1>3, <1>4 DEF Announce, Typed

-----------------------------------------------------------------------------
(* The encode sheet's steps.                                                *)
LEMMA OldestIs ==
  ASSUME Typed, NEW c \in Cards, TagsOf(c) # {}
  PROVE  Oldest(c) \in TagsOf(c) /\ Oldest(c) \in Nat
<1>1. \E t \in TagsOf(c) : \A o \in TagsOf(c) : t <= o  BY DEF Typed
<1>2. Oldest(c) \in TagsOf(c)  BY <1>1 DEF Oldest
<1>3. TagsOf(c) \subseteq Nat
  <2>1. DOMAIN tags = 1 .. Len(tags) /\ Len(tags) \in Nat  BY DEF Typed
  <2>2. QED  BY <2>1 DEF TagsOf
<1>4. QED  BY <1>2, <1>3

LEMMA SheetParts ==
  ASSUME PrintConstants, Typed, NEW b \in Boards, sheet[b] # Null
  PROVE  /\ sheet[b] \in SheetRow /\ sheet[b].card \in Cards
         /\ sheet[b].uid \in Chips \cup {Null} /\ sheet[b].tag \in Nat \cup {Null}
  BY DEF Typed, SheetRow

\* What a change of one sheet has to keep, the rest being as it was.
LEMMA TypedSheet ==
  ASSUME PrintConstants, Typed, UNCHANGED <<cards, tags, board>>, past' \in Past, chips' \in [Chips -> Nat \cup {Null}],
         \A k \in calls' : Fits(k),
         NEW b \in Boards, NEW row \in {Null} \cup SheetRow, sheet' = [sheet EXCEPT ![b] = row]
  PROVE  Typed'
<1>1. sheet' \in [Boards -> {Null} \cup SheetRow]  BY DEF Typed
<1>2. \A c \in Cards : TagsOf(c)' = TagsOf(c)  BY DEF TagsOf
<1>3. QED  BY <1>1, <1>2 DEF Typed

\* An encode changes one tag, and nobody's card.
LEMMA TagEncoded ==
  ASSUME Typed, NEW t, NEW u \in Chips, tags' = [tags EXCEPT ![t].status = "ENCODED", ![t].uid = u]
  PROVE  /\ tags' \in Seq(Tag) /\ DOMAIN tags' = DOMAIN tags
         /\ \A i \in DOMAIN tags : tags'[i].card = tags[i].card /\ (i # t => tags'[i] = tags[i])
                                  /\ (i = t => tags'[i].uid = u)
<1>1. tags \in Seq(Tag)  BY DEF Typed
<1>2. tags' = [tags EXCEPT ![t] = [tags[t] EXCEPT !.status = "ENCODED", !.uid = u]]  OBVIOUS
<1>3. \A i \in DOMAIN tags : tags[i] \in Tag  BY <1>1
<1>4. \A i \in DOMAIN tags : [tags[i] EXCEPT !.status = "ENCODED", !.uid = u] \in Tag
                            /\ [tags[i] EXCEPT !.status = "ENCODED", !.uid = u].card = tags[i].card
                            /\ [tags[i] EXCEPT !.status = "ENCODED", !.uid = u].uid = u
  BY <1>3 DEF Tag
<1>5. DOMAIN tags' = DOMAIN tags /\ \A i \in DOMAIN tags : tags'[i] = IF i = t THEN [tags[i] EXCEPT !.status = "ENCODED", !.uid = u] ELSE tags[i]
  BY <1>2, <1>1
<1>6. tags' \in Seq(Tag)
  <2>1. DOMAIN tags = 1 .. Len(tags) /\ Len(tags) \in Nat  BY <1>1
  <2>2. \A i \in 1 .. Len(tags) : tags'[i] \in Tag  BY <1>3, <1>4, <1>5, <2>1
  <2>3. tags' = [i \in 1 .. Len(tags) |-> tags'[i]]  BY <1>2, <1>5, <2>1
  <2>4. tags' \in [1 .. Len(tags) -> Tag]  BY <2>2, <2>3
  <2>5. QED  BY <2>1, <2>4, SeqDef
<1>7. QED  BY <1>4, <1>5, <1>6

LEMMA OpenedSheet ==
  ASSUME NEW c \in Cards
  PROVE  /\ Unfolded(c) \in SheetRow /\ Unfolded(c).card = c /\ Unfolded(c).phase = "preparing"
         /\ Unfolded(c).uid = Null
  BY DEF Unfolded, SheetRow

LEMMA PrepareFits ==
  ASSUME NEW b \in Boards, NEW c \in Cards PROVE Fits(Call("prepare", b, c))
  BY CallFits DEF Fits

LEMMA ConfirmFits ==
  ASSUME NEW b \in Boards \cup {Null}, NEW c \in Cards, NEW u \in Chips
  PROVE  LET l == [Call("confirm", b, c) EXCEPT !.uid = u] IN
         /\ Fits(l) /\ l.kind = "confirm" /\ l.board = b /\ l.card = c /\ l.step = "sent" /\ l.uid = u
<1> DEFINE call == Call("confirm", b, c)
           l == [call EXCEPT !.uid = u]
<1>1. call \in CallRow /\ call.kind = "confirm" /\ call.board = b /\ call.card = c /\ call.step = "sent"
  BY CallFits
<1> HIDE DEF call
<1>2. l \in CallRow /\ l.kind = "confirm" /\ l.board = b /\ l.card = c /\ l.step = "sent" /\ l.uid = u
  BY <1>1 DEF CallRow
<1> HIDE DEF l
<1>3. Fits(l)  BY <1>2 DEF Fits
<1>4. QED  BY <1>2, <1>3 DEF l, call

LEMMA TypedSheets ==
  ASSUME PrintConstants, Typed, NEW b \in Boards,
         \/ \E c \in Cards : onEncode(b, c)
         \/ \E u \in Chips : writeChip(b, u) \/ nfcHelperWrite(b, u)
         \/ retryPrepare(b) \/ closeSheet(b) \/ confirm(b)
  PROVE  Typed'
<1>b. \A c \in Cards : Moving(c) \in BOOLEAN /\ Early(b, c) \in BOOLEAN  BY DEF Moving, Early
<1>1. ASSUME NEW c \in Cards, onEncode(b, c) PROVE Typed'
  <2>1. \A k \in calls' : Fits(k)  BY <1>1, PrepareFits DEF onEncode, prepare, Typed
  <2>2. past' \in Past  BY <1>1, <1>b, RacedTyped DEF onEncode
  <2>3. QED  BY <1>1, <2>1, <2>2, OpenedSheet, TypedSheet DEF onEncode, Typed
<1>2. ASSUME retryPrepare(b) PROVE Typed'
  <2> DEFINE row == [sheet[b] EXCEPT !.phase = "preparing"]
  <2>1. sheet[b] \in SheetRow /\ sheet[b].card \in Cards  BY <1>2, SheetParts DEF retryPrepare
  <2>2. \A k \in calls' : Fits(k)  BY <1>2, <2>1, PrepareFits DEF retryPrepare, prepare, Typed
  <2>3. past' \in Past  BY <1>2, <1>b, <2>1, RacedTyped DEF retryPrepare
  <2>4. row \in SheetRow /\ sheet' = [sheet EXCEPT ![b] = row]  BY <1>2, <2>1 DEF retryPrepare, SheetRow
  <2> HIDE DEF row
  <2>5. QED  BY <1>2, <2>2, <2>3, <2>4, TypedSheet DEF retryPrepare, Typed
<1>3. CASE closeSheet(b)  BY <1>3, TypedSheet DEF closeSheet, Typed
<1>4. ASSUME NEW u \in Chips, writeChip(b, u) PROVE Typed'
  <2> DEFINE row == [sheet[b] EXCEPT !.uid = u]
  <2>1. sheet[b] \in SheetRow /\ sheet[b].tag \in Nat \cup {Null}  BY <1>4, SheetParts DEF writeChip, SheetReady
  <2>2. row \in SheetRow /\ sheet' = [sheet EXCEPT ![b] = row]  BY <1>4, <2>1 DEF writeChip, SheetRow
  <2>3. chips' \in [Chips -> Nat \cup {Null}]  BY <1>4, <2>1 DEF writeChip, Typed
  <2> HIDE DEF row
  <2>4. QED  BY <1>4, <2>2, <2>3, TypedSheet DEF writeChip, Typed
<1>5. ASSUME NEW u \in Chips, nfcHelperWrite(b, u) PROVE Typed'
  <2> DEFINE l == [Call("confirm", Null, sheet[b].card) EXCEPT !.uid = u]
  <2>1. sheet[b].card \in Cards /\ sheet[b].tag \in Nat \cup {Null}  BY <1>5, SheetParts DEF nfcHelperWrite, SheetReady
  <2>2. Fits(l) /\ calls' = calls \cup {l}  BY <1>5, <2>1, ConfirmFits DEF nfcHelperWrite
  <2>3. chips' \in [Chips -> Nat \cup {Null}]  BY <1>5, <2>1 DEF nfcHelperWrite, Typed
  <2>4. past' \in Past  BY <1>5, <1>b, <2>1, RacedTyped DEF nfcHelperWrite
  <2> HIDE DEF l
  <2>5. \A k \in calls' : Fits(k)  BY <2>2 DEF Typed
  <2>6. \A c \in Cards : TagsOf(c)' = TagsOf(c)  BY <1>5 DEF nfcHelperWrite, TagsOf
  <2>7. QED  BY <1>5, <2>3, <2>4, <2>5, <2>6 DEF nfcHelperWrite, Typed
<1>6. CASE confirm(b)
  <2> DEFINE row == [sheet[b] EXCEPT !.submitting = TRUE]
             l == [Call("confirm", b, sheet[b].card) EXCEPT !.uid = sheet[b].uid]
  <2>1. sheet[b] \in SheetRow /\ sheet[b].card \in Cards /\ sheet[b].uid \in Chips
    BY <1>6, SheetParts DEF confirm, SheetReady
  <2>2. Fits(l) /\ calls' = calls \cup {l}  BY <1>6, <2>1, ConfirmFits DEF confirm
  <2>3. row \in SheetRow /\ sheet' = [sheet EXCEPT ![b] = row]  BY <1>6, <2>1 DEF confirm, SheetRow
  <2>4. past' \in Past  BY <1>6, <1>b, <2>1, RacedTyped DEF confirm
  <2> HIDE DEF row, l
  <2>5. \A k \in calls' : Fits(k)  BY <2>2 DEF Typed
  <2>6. QED  BY <1>6, <2>3, <2>4, <2>5, TypedSheet DEF confirm, Typed
<1>7. QED  BY <1>1, <1>2, <1>3, <1>4, <1>5, <1>6

(* The answers of the sheet's calls.                                         *)
LEMMA TypedPrepare ==
  ASSUME PrintConstants, Typed, NEW k \in calls, GetOrCreateForOrderItem(k)
  PROVE  Typed'
<1>1. /\ Fits(k) /\ k.kind = "prepare" /\ k.card \in Cards /\ k.board \in Boards
      /\ k.step \in {"sent", "minting"} /\ cards[k.card] \in Stages
  BY DEF Typed, GetOrCreateForOrderItem, Fits
<1> DEFINE l == [k EXCEPT !.step = "minting"]
           m(r) == [k EXCEPT !.step = "committed", !.to = cards[k.card], !.result = r]
<1>2. Fits(l)  BY <1>1, Stepped DEF Fits
<1>3. ASSUME NEW r \in Nat PROVE Fits(m(r))
  <2>1. k \in CallRow  BY <1>1 DEF Fits
  <2>2. /\ m(r) \in CallRow /\ m(r).kind = "prepare" /\ m(r).board = k.board /\ m(r).card = k.card
        /\ m(r).step = "committed" /\ m(r).to = cards[k.card] /\ m(r).result = r
    BY <1>1, <2>1 DEF CallRow
  <2> HIDE DEF m
  <2>3. QED  BY <1>1, <2>2 DEF Fits
<1> HIDE DEF l, m
<1>4. CASE k.step = "sent" /\ TagsOf(k.card) # {}
  <2>1. calls' = (calls \ {k}) \cup {m(Oldest(k.card))} /\ UNCHANGED <<tags, past>>
    BY <1>4 DEF GetOrCreateForOrderItem, m
  <2>2. \A n \in calls' : Fits(n)  BY <1>1, <1>3, <1>4, <2>1, OldestIs DEF Typed
  <2>3. \A c \in Cards : TagsOf(c)' = TagsOf(c)  BY <2>1 DEF TagsOf
  <2>4. QED  BY <2>1, <2>2, <2>3 DEF GetOrCreateForOrderItem, Typed
<1>5. CASE k.step = "sent" /\ TagsOf(k.card) = {}
  <2>1. calls' = (calls \ {k}) \cup {l} /\ UNCHANGED tags  BY <1>5 DEF GetOrCreateForOrderItem, l
  <2>2. \A n \in calls' : Fits(n)  BY <1>2, <2>1 DEF Typed
  <2>3. past' \in Past
    <3> DEFINE more == IF Preparing(k.card) = {} THEN {} ELSE {k.card}
    <3>1. more \in SUBSET Cards  BY <1>1
    <3>2. past' = [past EXCEPT !.doubled = @ \cup more]  BY <1>5 DEF GetOrCreateForOrderItem
    <3> HIDE DEF more
    <3>3. QED  BY <3>1, <3>2 DEF Typed, Past
  <2>4. \A c \in Cards : TagsOf(c)' = TagsOf(c)  BY <2>1 DEF TagsOf
  <2>5. QED  BY <2>1, <2>2, <2>3, <2>4 DEF GetOrCreateForOrderItem, Typed
<1>6. CASE k.step = "minting"
  <2> DEFINE tag == [card |-> k.card, status |-> "UNENCODED", uid |-> Null]
  <2>1. calls' = (calls \ {k}) \cup {m(Len(tags) + 1)} /\ tags' = Append(tags, tag) /\ UNCHANGED past
    BY <1>6 DEF GetOrCreateForOrderItem, m
  <2>2. tag \in Tag  BY <1>1 DEF Tag
  <2> HIDE DEF tag
  <2>3. tags \in Seq(Tag) /\ Len(tags) \in Nat /\ DOMAIN tags = 1 .. Len(tags)  BY DEF Typed
  <2>4. tags' \in Seq(Tag) /\ DOMAIN tags' = 1 .. Len(tags) + 1
        /\ \A i \in 1 .. Len(tags) : tags'[i] = tags[i]
    BY <2>1, <2>2, <2>3
  <2>5. \A n \in calls' : Fits(n)  BY <1>3, <2>1, <2>3 DEF Typed
  <2>6. ASSUME NEW c \in Cards, TagsOf(c)' # {}
        PROVE  \E t \in TagsOf(c)' : \A o \in TagsOf(c)' : t <= o
    <3>1. TagsOf(c)' \subseteq TagsOf(c) \cup {Len(tags) + 1} /\ TagsOf(c) \subseteq TagsOf(c)'
      BY <2>3, <2>4 DEF TagsOf
    <3>2. TagsOf(c) \subseteq 1 .. Len(tags)  BY <2>3 DEF TagsOf
    <3>3. CASE TagsOf(c) = {}
      <4>1. TagsOf(c)' = {Len(tags) + 1}  BY <2>6, <3>1, <3>3
      <4>2. QED  BY <4>1, <2>3
    <3>4. CASE TagsOf(c) # {}
      <4>1. PICK t \in TagsOf(c) : \A o \in TagsOf(c) : t <= o  BY <3>4 DEF Typed
      <4>2. t <= Len(tags) + 1  BY <4>1, <3>2, <2>3
      <4>3. QED  BY <4>1, <4>2, <3>1
    <3>5. QED  BY <3>3, <3>4
  <2>7. QED  BY <2>1, <2>4, <2>5, <2>6 DEF GetOrCreateForOrderItem, Typed
<1>7. QED  BY <1>1, <1>4, <1>5, <1>6

LEMMA TypedAnswers ==
  ASSUME PrintConstants, Typed, NEW k \in calls, TagsOf(k.card) # {} \/ k.kind # "confirm",
         prepared(k) \/ prepareFailed(k) \/ EncodePrintJobTag(k) \/ onEncoded(k) \/ confirmFailed(k)
  PROVE  Typed'
<1>0. Fits(k) /\ k \in CallRow /\ k.card \in Cards
  BY DEF Typed, prepared, prepareFailed, EncodePrintJobTag, onEncoded, confirmFailed, Fits
<1>1. CASE prepared(k)
  <2> DEFINE row == IF Shows(k.board, k.card) THEN [sheet[k.board] EXCEPT !.phase = "ready", !.tag = k.result]
                    ELSE sheet[k.board]
  <2>1. k.board \in Boards /\ k.result \in Nat  BY <1>0, <1>1 DEF prepared, Fits
  <2>2. sheet' = [sheet EXCEPT ![k.board] = row]
    <3>1. CASE Shows(k.board, k.card)  BY <1>1, <3>1 DEF prepared
    <3>2. CASE ~Shows(k.board, k.card)  BY <1>1, <3>2, <2>1 DEF prepared, Typed
    <3>3. QED  BY <3>1, <3>2
  <2>3. row \in {Null} \cup SheetRow
    <3>1. CASE Shows(k.board, k.card)  BY <2>1, <3>1, SheetParts DEF Shows, SheetRow
    <3>2. CASE ~Shows(k.board, k.card)  BY <3>2, <2>1 DEF Typed
    <3>3. QED  BY <3>1, <3>2
  <2> HIDE DEF row
  <2>4. past' \in Past /\ chips' \in [Chips -> Nat \cup {Null}] /\ \A n \in calls' : Fits(n)
    BY <1>1 DEF prepared, Typed
  <2>5. QED  BY <1>1, <2>1, <2>2, <2>3, <2>4, TypedSheet DEF prepared
<1>2. CASE prepareFailed(k)
  <2> DEFINE row == IF Shows(k.board, k.card) THEN [sheet[k.board] EXCEPT !.phase = "prepareError"]
                    ELSE sheet[k.board]
  <2>1. k.board \in Boards  BY <1>0, <1>2 DEF prepareFailed, Fits
  <2>2. sheet' = [sheet EXCEPT ![k.board] = row]
    <3>1. CASE Shows(k.board, k.card)  BY <1>2, <3>1 DEF prepareFailed
    <3>2. CASE ~Shows(k.board, k.card)  BY <1>2, <3>2, <2>1 DEF prepareFailed, Typed
    <3>3. QED  BY <3>1, <3>2
  <2>3. row \in {Null} \cup SheetRow
    <3>1. CASE Shows(k.board, k.card)  BY <2>1, <3>1, SheetParts DEF Shows, SheetRow
    <3>2. CASE ~Shows(k.board, k.card)  BY <3>2, <2>1 DEF Typed
    <3>3. QED  BY <3>1, <3>2
  <2> HIDE DEF row
  <2>4. past' \in Past /\ chips' \in [Chips -> Nat \cup {Null}] /\ \A n \in calls' : Fits(n)
    BY <1>2 DEF prepareFailed, Typed
  <2>5. QED  BY <1>2, <2>1, <2>2, <2>3, <2>4, TypedSheet DEF prepareFailed
<1>3. CASE EncodePrintJobTag(k)
  <2> DEFINE l == [k EXCEPT !.step = "committed", !.to = "PACKING"]
  <2>1. k.kind = "confirm" /\ k.uid \in Chips  BY <1>0, <1>3 DEF EncodePrintJobTag, Fits
  <2>2. Fits(l)  BY <1>0, <2>1, SteppedTo, StagesAre DEF Fits
  <2>3. calls' = (Behind(Null, k.card) \ {k}) \cup {l}  BY <1>3 DEF EncodePrintJobTag
  <2> HIDE DEF l
  <2>4. \A n \in calls' : Fits(n)  BY <1>0, <2>2, <2>3, BehindFits DEF Typed
  <2>5. /\ tags' \in Seq(Tag) /\ DOMAIN tags' = DOMAIN tags
        /\ \A i \in DOMAIN tags : tags'[i].card = tags[i].card
    BY <1>3, <2>1, TagEncoded DEF EncodePrintJobTag
  <2>6. \A c \in Cards : TagsOf(c)' = TagsOf(c)  BY <2>5 DEF TagsOf
  <2>7. cards' \in [Cards -> Stages] /\ \A c \in Cards \ Tagged : cards'[c] # "NFC_ENCODE"
    BY <1>0, <1>3, StagesAre DEF EncodePrintJobTag, Typed
  <2>8. QED  BY <1>3, <2>4, <2>5, <2>6, <2>7 DEF EncodePrintJobTag, Typed
<1>4. CASE onEncoded(k)
  <2>1. \A n \in calls' : Fits(n)  BY <1>0, <1>4, BehindFits DEF onEncoded, Typed
  <2>2. \A c \in Cards : TagsOf(c)' = TagsOf(c)  BY <1>4 DEF onEncoded, TagsOf
  <2>3. sheet' \in [Boards -> {Null} \cup SheetRow]  BY <1>4 DEF onEncoded, Typed
  <2>4. CASE k.board = Null  BY <1>4, <2>1, <2>2, <2>3, <2>4 DEF onEncoded, Typed
  <2>5. CASE k.board # Null
    <3> DEFINE row == [board[k.board] EXCEPT !.cards = [@ EXCEPT ![k.card] = "PACKING"]]
    <3>1. k.board \in Boards  BY <1>0, <2>5 DEF CallRow
    <3>2. board' = [board EXCEPT ![k.board] = row]  BY <1>4, <2>5 DEF onEncoded, mergeCard
    <3>3. row \in BoardRow /\ row.feed = board[k.board].feed  BY <1>0, <3>1, BoardParts, StagesAre DEF BoardRow
    <3> HIDE DEF row
    <3>4. board' \in [Boards -> BoardRow] /\ \A b \in Boards : board'[b].feed = board[b].feed
      BY <3>1, <3>2, <3>3 DEF Typed
    <3>5. QED  BY <1>4, <2>1, <2>2, <2>3, <3>4 DEF onEncoded, Typed
  <2>6. QED  BY <2>4, <2>5
<1>5. CASE confirmFailed(k)
  <2>1. \A n \in calls' : Fits(n)  BY <1>5 DEF confirmFailed, Typed
  <2>2. past' \in Past  BY <1>0, <1>5, RacedTyped DEF confirmFailed
  <2>3. \A c \in Cards : TagsOf(c)' = TagsOf(c)  BY <1>5 DEF confirmFailed, TagsOf
  <2>4. sheet' \in [Boards -> {Null} \cup SheetRow]
    <3>1. CASE k.board # Null /\ Shows(k.board, k.card)
      <4>1. k.board \in Boards  BY <1>0, <3>1 DEF CallRow
      <4>2. [sheet[k.board] EXCEPT !.submitting = FALSE] \in SheetRow  BY <3>1, <4>1, SheetParts DEF Shows, SheetRow
      <4>3. sheet' = [sheet EXCEPT ![k.board] = [sheet[k.board] EXCEPT !.submitting = FALSE]]
        BY <1>5, <3>1 DEF confirmFailed
      <4>4. QED  BY <4>1, <4>2, <4>3 DEF Typed
    <3>2. CASE ~(k.board # Null /\ Shows(k.board, k.card))  BY <1>5, <3>2 DEF confirmFailed, Typed
    <3>3. QED  BY <3>1, <3>2
  <2>5. QED  BY <1>5, <2>1, <2>2, <2>3, <2>4 DEF confirmFailed, Typed
<1>6. QED  BY <1>1, <1>2, <1>3, <1>4, <1>5

-----------------------------------------------------------------------------
(***************************************************************************)
(* What the boards are told.  A feed belongs to a connected board, a poll to   *)
(* one that is not; a poll that was read knows each card's stage, or that it   *)
(* is behind.                                                              *)
(***************************************************************************)
Streams ==
  /\ \A b \in Boards : board[b].feed # Null => board[b].live
  /\ \A k \in calls : k.kind = "poll" =>
       /\ ~board[k.board].live
       /\ k.step = "done" => \A c \in Cards : c \in k.since \/ k.result[c] = cards[c]

\* The last frame of the card in the board's feed is where the card is.
LastNews(b, c) ==
  board[b].feed # Null =>
    \A i \in DOMAIN board[b].feed :
      board[b].feed[i].card = c /\ (\A j \in DOMAIN board[b].feed : j > i => board[b].feed[j].card # c)
      => board[b].feed[i].stage = cards[c]
\* Left alone, the board comes to show the card where it is, unless it missed it.
Settles(b, c) ==
  c \in board[b].missed \/ (LastNews(b, c) /\ (~Awaits(b, c) => board[b].cards[c] = cards[c]))
Own(k, b) == k.kind \in {"move", "confirm"} /\ k.board = b
(* What a call under way says of its card.  A move not yet made can put back    *)
(* the stage that is still the card's; what is committed or pushed is the       *)
(* card's; its own board has no frame of the card before its own is pushed.    *)
NewsOf(k, b) ==
  /\ k.kind = "move" /\ k.step = "sent" /\ k.board = b => k.from = cards[k.card]
  /\ k.step \in {"committed", "done"} => k.to = cards[k.card]
  /\ Own(k, b) /\ k.step \in {"sent", "committed"} => ~Awaits(b, k.card)
  /\ Own(k, b) /\ k.step = "done" => LastNews(b, k.card)
  /\ ~Own(k, b) /\ (k.step # "committed" \/ k.kind = "prepare") => Settles(b, k.card)
  /\ k.kind = "confirm" /\ k.step = "sent" => Settles(b, k.card)
ToldOf(c) ==
  /\ \A k, l \in calls : k.card = c /\ l.card = c => k = l
  /\ \A b \in Boards :
       /\ ~Moving(c) => Settles(b, c)
       /\ \A k \in calls : k.card = c => NewsOf(k, b)
Told == \A c \in Cards \ past.raced : ToldOf(c)

\* What a step of other cards leaves of this one on a board.
Keeps(b, c) ==
  /\ Settles(b, c) => Settles(b, c)'
  /\ ~Awaits(b, c) => ~Awaits(b, c)'
  /\ LastNews(b, c) => LastNews(b, c)'
CallsOf(c) == {k \in calls : k.card = c}

LEMMA ToldKept ==
  ASSUME NEW c \in Cards, ToldOf(c), cards'[c] = cards[c], CallsOf(c)' = CallsOf(c),
         \A b \in Boards : Keeps(b, c)
  PROVE  ToldOf(c)'
<1>1. \A k : (k \in calls' /\ k.card = c) <=> (k \in calls /\ k.card = c)  BY DEF CallsOf
<1>2. Moving(c)' <=> Moving(c)  BY <1>1 DEF Moving
<1>3. ASSUME NEW b \in Boards, NEW k \in calls, k.card = c, NewsOf(k, b) PROVE NewsOf(k, b)'
  <2> DEFINE settles == Settles(b, c)  awaits == Awaits(b, c)  last == LastNews(b, c)
  <2>1. Settles(b, k.card) = settles /\ Awaits(b, k.card) = awaits /\ LastNews(b, k.card) = last
    BY <1>3
  <2>2. Settles(b, k.card)' = settles' /\ Awaits(b, k.card)' = awaits' /\ LastNews(b, k.card)' = last'
    BY <1>3
  <2>3. (settles => settles') /\ (~awaits => ~awaits') /\ (last => last')  BY DEF Keeps
  <2> HIDE DEF settles, awaits, last
  <2>4. cards'[k.card] = cards[k.card] /\ (Own(k, b)' <=> Own(k, b))  BY <1>3 DEF Own
  <2>5. QED  BY <1>3, <2>1, <2>2, <2>3, <2>4 DEF NewsOf
<1>4. \A b \in Boards : ~Moving(c) => Settles(b, c)'  BY DEF ToldOf, Keeps
<1>5. QED  BY <1>1, <1>2, <1>3, <1>4 DEF ToldOf

LEMMA ViewKept ==
  ASSUME NEW b \in Boards, NEW c \in Cards, cards'[c] = cards[c],
         board'[b].feed = board[b].feed, board'[b].cards[c] = board[b].cards[c],
         c \in board[b].missed => c \in board'[b].missed
  PROVE  Keeps(b, c)
<1>1. LastNews(b, c)' <=> LastNews(b, c)  BY DEF LastNews
<1>2. Awaits(b, c)' <=> Awaits(b, c)  BY DEF Awaits
<1>3. QED  BY <1>1, <1>2 DEF Keeps, Settles

-----------------------------------------------------------------------------
(* Streams and polls.                                                       *)
LEMMA ToldInit == PrintConstants /\ PrintInit => Streams /\ Told
<1> SUFFICES ASSUME PrintConstants, PrintInit PROVE Streams /\ Told  OBVIOUS
<1>1. \A b \in Boards : board[b].feed = Null /\ board[b].cards = cards  BY DEF PrintInit, Opened
<1>2. calls = {}  BY DEF PrintInit
<1>3. \A b \in Boards, c \in Cards : Settles(b, c)  BY <1>1 DEF Settles, LastNews
<1>4. QED  BY <1>1, <1>2, <1>3 DEF Streams, Told, ToldOf
\* A step that leaves the cards and their calls alone keeps what is told.
LEMMA ToldByViews ==
  ASSUME PrintConstants, Told, UNCHANGED cards, past.raced \subseteq past'.raced,
         \A k : k.kind # "poll" => (k \in calls' <=> k \in calls),
         \A k \in calls \cup calls' : k.kind = "poll" => k.card = Null,
         \A b \in Boards, c \in Cards : Keeps(b, c)
  PROVE  Told'
<1>1. ASSUME NEW c \in Cards PROVE CallsOf(c)' = CallsOf(c)
  <2>1. c # Null  BY DEF PrintConstants
  <2>2. QED  BY <2>1 DEF CallsOf
<1>2. QED  BY <1>1, ToldKept DEF Told

\* The browser that reads its feed is told the same by what is left of it.
LEMMA ReadFrame ==
  ASSUME PrintConstants, Typed, NEW b \in Boards, onStage(b), NEW c \in Cards
  PROVE  Keeps(b, c)
<1> DEFINE feed == board[b].feed
           rest == Tail(feed)
           frame == Head(feed)
<1>1. feed \in Seq(Frame) /\ feed # <<>> /\ feed # Null /\ board[b] \in BoardRow
  BY BoardParts DEF onStage
<1>2. Len(feed) \in Nat /\ Len(feed) >= 1 /\ DOMAIN feed = 1 .. Len(feed) /\ frame = feed[1] /\ frame \in Frame
  BY <1>1
<1>3. /\ rest \in Seq(Frame) /\ DOMAIN rest = 1 .. Len(feed) - 1
      /\ \A i \in 1 .. Len(feed) - 1 : rest[i] = feed[i + 1]
  BY <1>1
<1>4. rest # Null  BY <1>3 DEF PrintConstants
<1>5. board[b].cards \in [Cards -> Stages] /\ frame.card \in Cards  BY <1>1, <1>2 DEF BoardRow, Frame
<1>6. /\ board'[b].feed = rest /\ board'[b].missed = board[b].missed
      /\ board'[b].cards = [board[b].cards EXCEPT ![frame.card] = frame.stage]
  <2>1. board' = [board EXCEPT ![b].cards = [@ EXCEPT ![frame.card] = frame.stage], ![b].feed = Tail(@)]
    BY DEF onStage, mergeCard
  <2> HIDE DEF frame
  <2>2. QED  BY <2>1, <1>1 DEF Typed, BoardRow
<1>7. UNCHANGED cards  BY DEF onStage
<1> HIDE DEF rest, frame
<1>8. Awaits(b, c)' <=> \E i \in 1 .. Len(feed) - 1 : feed[i + 1].card = c
  BY <1>3, <1>4, <1>6 DEF Awaits
<1>9. ~Awaits(b, c) => ~Awaits(b, c)'  BY <1>1, <1>2, <1>8 DEF Awaits
<1>10. ASSUME LastNews(b, c) PROVE LastNews(b, c)'
  <2>1. SUFFICES ASSUME NEW i \in 1 .. Len(feed) - 1, rest[i].card = c,
                        \A j \in 1 .. Len(feed) - 1 : j > i => rest[j].card # c
                 PROVE  rest[i].stage = cards[c]
    BY <1>3, <1>6, <1>7 DEF LastNews
  <2>2. i + 1 \in DOMAIN feed /\ feed[i + 1].card = c  BY <2>1, <1>2, <1>3
  <2>3. ASSUME NEW j \in DOMAIN feed, j > i + 1 PROVE feed[j].card # c
    <3>1. j - 1 \in 1 .. Len(feed) - 1 /\ j - 1 > i /\ (j - 1) + 1 = j  BY <2>3, <1>2
    <3>2. QED  BY <3>1, <2>1, <1>3
  <2>4. feed[i + 1].stage = cards[c]  BY <2>2, <2>3, <1>10, <1>1 DEF LastNews
  <2>5. QED  BY <2>1, <2>4, <1>3
<1>11. ASSUME Settles(b, c), c \notin board[b].missed PROVE Settles(b, c)'
  <2>1. LastNews(b, c) /\ (~Awaits(b, c) => board[b].cards[c] = cards[c])  BY <1>11 DEF Settles
  <2>2. ASSUME ~Awaits(b, c)' PROVE board'[b].cards[c] = cards[c]
    <3>1. \A j \in DOMAIN feed : j > 1 => feed[j].card # c
      <4>1. ASSUME NEW j \in DOMAIN feed, j > 1 PROVE feed[j].card # c
        <5>1. j - 1 \in 1 .. Len(feed) - 1 /\ (j - 1) + 1 = j  BY <4>1, <1>2
        <5>2. QED  BY <5>1, <2>2, <1>8
      <4>2. QED  BY <4>1
    <3>2. CASE frame.card = c
      <4>1. frame.stage = cards[c]  BY <2>1, <3>1, <3>2, <1>1, <1>2 DEF LastNews
      <4>2. QED  BY <4>1, <3>2, <1>5, <1>6
    <3>3. CASE frame.card # c
      <4>1. ~Awaits(b, c)
        <5>1. \A j \in DOMAIN feed : j = 1 \/ j > 1  BY <1>2
        <5>2. QED  BY <5>1, <3>1, <3>3, <1>2 DEF Awaits
      <4>2. QED  BY <4>1, <2>1, <3>3, <1>5, <1>6
    <3>4. QED  BY <3>2, <3>3
  <2>3. QED  BY <2>1, <2>2, <1>7, <1>10 DEF Settles
<1>12. c \in board[b].missed => Settles(b, c)'  BY <1>6 DEF Settles
<1>13. QED  BY <1>9, <1>10, <1>11, <1>12 DEF Keeps

LEMMA ToldStream ==
  ASSUME PrintConstants, Typed, Streams, Told, NEW b \in Boards,
         onopen(b) \/ subscribe(b) \/ onerror(b) \/ onStage(b) \/ tick(b) \/ reload(b)
  PROVE  Streams' /\ Told'
<1>0. /\ board[b] \in BoardRow /\ \A k \in calls : Fits(k)
      /\ \A k \in calls : k.kind = "poll" => k.card = Null /\ k.board \in Boards
  BY BoardParts DEF Typed, Fits
<1>a. \A d \in Boards, c \in Cards : board'[d] = board[d] /\ cards' = cards => Keeps(d, c)  BY ViewKept
<1>1. CASE onopen(b)
  <2>1. board' = [board EXCEPT ![b] = [board[b] EXCEPT !.live = TRUE]]  BY <1>1 DEF onopen
  <2>2. /\ board'[b].feed = board[b].feed /\ board'[b].cards = board[b].cards
        /\ board'[b].missed = board[b].missed /\ board'[b].live
        /\ \A d \in Boards : d # b => board'[d] = board[d]
    BY <2>1, <1>0 DEF BoardRow, Typed
  <2>3. \A d \in Boards, c \in Cards : Keeps(d, c)
    <3>1. \A c \in Cards : Keeps(b, c)  BY <1>1, <2>2, ViewKept DEF onopen
    <3>2. QED  BY <1>1, <1>a, <2>2, <3>1 DEF onopen
  <2>4. calls' \subseteq calls /\ \A k : k.kind # "poll" => (k \in calls' <=> k \in calls)
    BY <1>1 DEF onopen, Polls
  <2>5. \A k \in calls' : k.kind = "poll" => k.board # b  BY <1>1 DEF onopen, Polls
  <2>6. Told'  BY <1>0, <1>1, <2>3, <2>4, ToldByViews DEF onopen
  <2>7. Streams'  BY <1>0, <1>1, <2>2, <2>4, <2>5 DEF Streams, onopen
  <2>8. QED  BY <2>6, <2>7
<1>2. CASE subscribe(b)
  <2>1. board' = [board EXCEPT ![b] = [board[b] EXCEPT !.feed = <<>>]]  BY <1>2 DEF subscribe
  <2>2. /\ board'[b].feed = <<>> /\ board'[b].cards = board[b].cards
        /\ board'[b].missed = board[b].missed /\ board'[b].live = board[b].live
        /\ \A d \in Boards : d # b => board'[d] = board[d]
    BY <2>1, <1>0 DEF BoardRow, Typed
  <2>3. \A c \in Cards : Keeps(b, c)
    BY <1>2, <2>2 DEF subscribe, Keeps, Settles, Awaits, LastNews
  <2>4. \A d \in Boards, c \in Cards : Keeps(d, c)  BY <1>2, <1>a, <2>2, <2>3 DEF subscribe
  <2>5. Told'  BY <1>0, <1>2, <2>4, ToldByViews DEF subscribe
  <2>6. Streams'  BY <1>0, <1>2, <2>2 DEF Streams, subscribe
  <2>7. QED  BY <2>5, <2>6
<1>3. CASE onerror(b)
  <2> DEFINE heard == IF board[b].feed = Null THEN {} ELSE {board[b].feed[i].card : i \in DOMAIN board[b].feed}
  <2>1. board' = [board EXCEPT ![b] = [board[b] EXCEPT !.live = FALSE, !.feed = Null, !.missed = @ \cup heard]]
    BY <1>3 DEF onerror
  <2>2. \A c : Awaits(b, c) => c \in heard  BY DEF Awaits
  <2> HIDE DEF heard
  <2>3. /\ board'[b].feed = Null /\ board'[b].cards = board[b].cards
        /\ board'[b].missed = board[b].missed \cup heard /\ board'[b].live = FALSE
        /\ \A d \in Boards : d # b => board'[d] = board[d]
    BY <2>1, <1>0 DEF BoardRow, Typed
  <2>4. ASSUME NEW c \in Cards PROVE Keeps(b, c)
    <3>1. LastNews(b, c)' /\ ~Awaits(b, c)'  BY <2>3 DEF LastNews, Awaits
    <3>2. Settles(b, c) => Settles(b, c)'
      <4>1. CASE Awaits(b, c)  BY <2>2, <2>3, <4>1 DEF Settles
      <4>2. CASE ~Awaits(b, c)  BY <1>3, <2>3, <3>1, <4>2 DEF Settles, onerror
      <4>3. QED  BY <4>1, <4>2
    <3>3. QED  BY <3>1, <3>2 DEF Keeps
  <2>5. \A d \in Boards, c \in Cards : Keeps(d, c)  BY <1>3, <1>a, <2>3, <2>4 DEF onerror
  <2>6. past.raced = past'.raced  BY <1>3 DEF onerror, Typed, Past
  <2>7. Told'  BY <1>0, <1>3, <2>5, <2>6, ToldByViews DEF onerror
  <2>8. Streams'  BY <1>0, <1>3, <2>3 DEF Streams, onerror
  <2>9. QED  BY <2>7, <2>8
<1>4. CASE onStage(b)
  <2>1. \A d \in Boards : d # b => board'[d] = board[d]  BY <1>4 DEF onStage, Typed
  <2>2. board'[b].live = board[b].live /\ board[b].feed # Null
    BY <1>4, <1>0 DEF onStage, Typed, BoardRow
  <2>3. \A d \in Boards, c \in Cards : Keeps(d, c)  BY <1>4, <1>a, <2>1, ReadFrame DEF onStage
  <2>4. Told'  BY <1>0, <1>4, <2>3, ToldByViews DEF onStage
  <2>5. Streams'  BY <1>0, <1>4, <2>1, <2>2 DEF Streams, onStage
  <2>6. QED  BY <2>4, <2>5
<1>5. CASE tick(b)
  <2> DEFINE l == Call("poll", b, Null)
  <2>1. l.kind = "poll" /\ l.board = b /\ l.card = Null /\ l.step = "sent"  BY CallFits
  <2>2. calls' = calls \cup {l}  BY <1>5 DEF tick
  <2> HIDE DEF l
  <2>3. Told'  BY <1>0, <1>5, <1>a, <2>1, <2>2, ToldByViews DEF tick
  <2>4. Streams'  BY <1>0, <1>5, <2>1, <2>2 DEF Streams, tick
  <2>5. QED  BY <2>3, <2>4
<1>6. CASE reload(b)
  <2>1. board'[b] = Opened /\ \A d \in Boards : d # b => board'[d] = board[d]
    BY <1>6 DEF reload, Typed
  <2>2. \A c \in Cards : Keeps(b, c)
    BY <1>6, <2>1 DEF reload, Opened, Keeps, Settles, Awaits, LastNews
  <2>3. \A d \in Boards, c \in Cards : Keeps(d, c)  BY <1>6, <1>a, <2>1, <2>2 DEF reload
  <2>4. Told'  BY <1>0, <1>6, <2>3, ToldByViews DEF reload
  <2>5. Streams'  BY <1>0, <1>6, <2>1 DEF Streams, reload, Opened
  <2>6. QED  BY <2>4, <2>5
<1>7. QED  BY <1>1, <1>2, <1>3, <1>4, <1>5, <1>6

LEMMA ToldPolls ==
  ASSUME PrintConstants, Typed, Streams, Told, NEW k \in calls, refetchPrintQueue(k) \/ polled(k)
  PROVE  Streams' /\ Told'
<1>0. /\ Fits(k) /\ k.kind = "poll" /\ k.board \in Boards /\ k.card = Null
      /\ \A l \in calls : l.kind = "poll" => l.card = Null /\ l.board \in Boards
  BY DEF Typed, refetchPrintQueue, polled, Fits
<1>a. \A d \in Boards, c \in Cards : board'[d] = board[d] /\ cards' = cards => Keeps(d, c)  BY ViewKept
<1>1. CASE refetchPrintQueue(k)
  <2> DEFINE l == [k EXCEPT !.step = "done", !.result = cards]
  <2>1. l.kind = "poll" /\ l.board = k.board /\ l.card = Null /\ l.result = cards
    BY <1>0 DEF Fits, CallRow
  <2>2. calls' = (calls \ {k}) \cup {l}  BY <1>1 DEF refetchPrintQueue
  <2> HIDE DEF l
  <2>3. \A m : m.kind # "poll" => (m \in calls' <=> m \in calls)  BY <1>0, <2>1, <2>2
  <2>4. Told'  BY <1>0, <1>1, <1>a, <2>1, <2>2, <2>3, ToldByViews DEF refetchPrintQueue
  <2>5. Streams'  BY <1>0, <1>1, <2>1, <2>2 DEF Streams, refetchPrintQueue
  <2>6. QED  BY <2>4, <2>5
<1>2. CASE polled(k)
  <2>1. board' = [board EXCEPT ![k.board] = [board[k.board] EXCEPT !.cards = k.result, !.missed = k.since]]
    BY <1>2 DEF polled
  <2>2. /\ board'[k.board].feed = board[k.board].feed /\ board'[k.board].cards = k.result
        /\ board'[k.board].missed = k.since /\ board'[k.board].live = board[k.board].live
        /\ \A d \in Boards : d # k.board => board'[d] = board[d]
    BY <2>1, <1>0, BoardParts DEF BoardRow, Typed
  <2>3. /\ board[k.board].feed = Null /\ \A c \in Cards : c \in k.since \/ k.result[c] = cards[c]
    BY <1>0, <1>2 DEF Streams, polled
  <2>4. \A c \in Cards : Keeps(k.board, c)
    BY <1>2, <2>2, <2>3 DEF polled, Keeps, Settles, Awaits, LastNews
  <2>5. \A d \in Boards, c \in Cards : Keeps(d, c)  BY <1>2, <1>a, <2>2, <2>4 DEF polled
  <2>6. \A m : m.kind # "poll" => (m \in calls' <=> m \in calls)  BY <1>0, <1>2 DEF polled
  <2>7. Told'  BY <1>0, <1>2, <2>5, <2>6, ToldByViews DEF polled
  <2>8. Streams'  BY <1>0, <1>2, <2>2, <2>3 DEF Streams, polled
  <2>9. QED  BY <2>7, <2>8
<1>3. QED  BY <1>1, <1>2
-----------------------------------------------------------------------------
(***************************************************************************)
(* Moves and encodes.  One card's call starts, commits, is pushed and is       *)
(* answered; what other cards are told is kept.                              *)
(***************************************************************************)
\* Behind marks polls; no call of a card is touched.
LEMMA BehindCalls ==
  ASSUME PrintConstants, Typed, NEW b, NEW c \in Cards
  PROVE  /\ \A m : m.kind # "poll" => (m \in Behind(b, c) <=> m \in calls)
         /\ \A m \in Behind(b, c) : m.kind = "poll" => m.card = Null
<1>1. \A m \in calls : Fits(m)  BY DEF Typed
<1>2. ASSUME NEW m \in Behind(b, c), m.kind # "poll" PROVE m \in calls  BY <1>1, <1>2, BehindMarks
<1>3. ASSUME NEW m \in Behind(b, c), m.kind = "poll" PROVE m.card = Null
  BY <1>1, <1>3, BehindMarks DEF Fits
<1>4. QED  BY <1>2, <1>3, BehindKeeps

\* What one call's step changes, seen from each card.
LEMMA ToldByCall ==
  ASSUME PrintConstants, Typed, Told, NEW c \in Cards,
         past.raced \subseteq past'.raced,
         \A e \in Cards \ {c} : cards'[e] = cards[e],
         \A m : m.kind # "poll" /\ m.card # c => (m \in calls' <=> m \in calls),
         \A m \in calls' : m.kind = "poll" => m.card = Null,
         \A b \in Boards, e \in Cards \ {c} : Keeps(b, e),
         c \notin past'.raced => ToldOf(c)'
  PROVE  Told'
<1>1. ASSUME NEW e \in Cards \ {c} PROVE CallsOf(e)' = CallsOf(e)
  <2>1. e # Null /\ \A m \in calls : m.kind = "poll" => m.card = Null  BY DEF PrintConstants, Typed, Fits
  <2>2. QED  BY <2>1 DEF CallsOf
<1>2. ASSUME NEW e \in Cards \ {c}, e \notin past'.raced PROVE ToldOf(e)'
  <2>1. ToldOf(e)  BY <1>2 DEF Told
  <2>2. QED  BY <1>1, <2>1, ToldKept
<1>3. QED  BY <1>2 DEF Told

\* A first call of a card that every board is told of.
LEMMA FirstCall ==
  ASSUME NEW c \in Cards, ToldOf(c), ~Moving(c), NEW l, calls' = calls \cup {l}, l.card = c,
         \A b \in Boards : NewsOf(l, b)'
  PROVE  ToldOf(c)'
<1>1. \A k \in calls' : k.card = c => k = l  BY DEF Moving
<1>2. Moving(c)'  BY DEF Moving
<1>3. QED  BY <1>1, <1>2 DEF ToldOf

\* The card's one call takes a step.
LEMMA NextStep ==
  ASSUME NEW c \in Cards, ToldOf(c), NEW k \in calls, k.card = c, NEW l, l.card = c,
         \A m : m.card = c => (m \in calls' <=> (m \in calls /\ m # k) \/ m = l),
         \A b \in Boards : NewsOf(l, b)'
  PROVE  ToldOf(c)'
<1>1. \A m \in calls' : m.card = c => m = l  BY DEF ToldOf
<1>2. Moving(c)'  BY DEF Moving
<1>3. QED  BY <1>1, <1>2 DEF ToldOf

\* The card's one call is answered.
LEMMA LastStep ==
  ASSUME NEW c \in Cards, ToldOf(c), NEW k \in calls, k.card = c,
         \A m : m.card = c => (m \in calls' <=> m \in calls /\ m # k),
         \A b \in Boards : Settles(b, c)'
  PROVE  ToldOf(c)'
<1>1. \A m \in calls' : m.card # c  BY DEF ToldOf
<1>2. ~Moving(c)'  BY <1>1 DEF Moving
<1>3. QED  BY <1>1, <1>2 DEF ToldOf

\* Polls of boards that stay as connected as they were.
LEMMA StreamsKept ==
  ASSUME PrintConstants, Typed, Streams, NEW c \in Cards,
         \A b \in Boards : board'[b].live = board[b].live /\ (board'[b].feed # Null => board[b].feed # Null),
         \A e \in Cards \ {c} : cards'[e] = cards[e],
         \A m \in calls' : m.kind = "poll" =>
           m \in Behind(Null, c) \/ (cards' = cards /\ (m \in calls \/ \E b \in Boards : m \in Behind(b, c)))
  PROVE  Streams'
<1>1. \A k \in calls : k.kind = "poll" =>
        /\ k.board \in Boards /\ ~board[k.board].live
        /\ k.step = "done" => \A e \in Cards : e \in k.since \/ k.result[e] = cards[e]
  BY DEF Streams, Typed, Fits
<1>2. \A m \in calls : Fits(m)  BY DEF Typed
<1>3. ASSUME NEW m \in calls', m.kind = "poll"
      PROVE  /\ ~board'[m.board].live
             /\ m.step = "done" => \A e \in Cards : e \in m.since \/ m.result[e] = cards'[e]
  <2>1. CASE m \in calls /\ cards' = cards  BY <1>1, <1>3, <2>1
  <2>2. CASE m \in Behind(Null, c)
    <3>1. CASE m \in calls /\ m.step # "done"  BY <1>1, <1>3, <3>1
    <3>2. CASE \E k \in calls : /\ k.kind = "poll" /\ k.step = "done" /\ Fits(m)
                                /\ m.kind = "poll" /\ m.step = "done" /\ m.board = k.board
                                /\ m.result = k.result /\ m.since = k.since \cup {c} /\ m.card = Null
      BY <1>1, <3>2
    <3>3. QED  BY <1>2, <1>3, <2>2, <3>1, <3>2, BehindMarks
  <2>3. ASSUME NEW b \in Boards, cards' = cards, m \in Behind(b, c)
        PROVE  /\ ~board'[m.board].live
               /\ m.step = "done" => \A e \in Cards : e \in m.since \/ m.result[e] = cards'[e]
    <3>1. CASE m \in calls  BY <1>1, <1>3, <2>3, <3>1
    <3>2. CASE \E k \in calls : /\ k.kind = "poll" /\ k.step = "done" /\ Fits(m)
                                /\ m.kind = "poll" /\ m.step = "done" /\ m.board = k.board
                                /\ m.result = k.result /\ m.since = k.since \cup {c} /\ m.card = Null
      BY <1>1, <2>3, <3>2
    <3>3. QED  BY <1>2, <2>3, <3>1, <3>2, BehindMarks
  <2>4. QED  BY <1>3, <2>1, <2>2, <2>3
<1>4. \A b \in Boards : board'[b].feed # Null => board'[b].live  BY DEF Streams
<1>5. QED  BY <1>3, <1>4 DEF Streams
LEMMA ToldAdvance ==
  ASSUME PrintConstants, Typed, Streams, Told, NEW b \in Boards, NEW c \in Cards, NEW to \in Stages,
         c \in Tagged \/ to # "NFC_ENCODE", advance(b, c, to)
  PROVE  Streams' /\ Told'
<1>0. PICK l : /\ calls' = calls \cup {l}
               /\ l.kind = "move" /\ l.board = b /\ l.card = c /\ l.step = "sent" /\ l.from = board[b].cards[c]
  <2>1. PICK l : l = [Call("move", b, c) EXCEPT !.to = to, !.from = board[b].cards[c]]  OBVIOUS
  <2> DEFINE was == board[b].cards[c]
             call == Call("move", b, c)
  <2>2. call \in CallRow /\ call.kind = "move" /\ call.board = b /\ call.card = c /\ call.step = "sent"
    BY CallFits
  <2>3. l = [call EXCEPT !.to = to, !.from = was] /\ was \in Stages  BY <2>1, BoardParts
  <2> HIDE DEF was, call
  <2>4. l.kind = "move" /\ l.board = b /\ l.card = c /\ l.step = "sent" /\ l.from = was
    BY <2>2, <2>3 DEF CallRow
  <2>5. calls' = calls \cup {l}  BY <2>1 DEF advance
  <2>6. QED  BY <2>4, <2>5 DEF was
<1>1. l.kind = "move" /\ l.board = b /\ l.card = c /\ l.step = "sent" /\ l.from = board[b].cards[c]
  BY <1>0
<1>2. calls' = calls \cup {l}  BY <1>0
<1>3. /\ \A d \in Boards : d # b => board'[d] = board[d]
      /\ board'[b].feed = board[b].feed /\ board'[b].missed = board[b].missed
      /\ board'[b].live = board[b].live
      /\ \A e \in Cards \ {c} : board'[b].cards[e] = board[b].cards[e]
  <2>1. board' = [board EXCEPT ![b] = [board[b] EXCEPT !.cards = [@ EXCEPT ![c] = to], !.error = FALSE]]
    BY DEF advance
  <2>2. QED  BY <2>1, BoardParts DEF Typed, BoardRow
<1>4. cards' = cards  BY DEF advance
<1>5. /\ past.raced \subseteq past'.raced
      /\ c \notin past'.raced => ~Early(b, c)
  <2>1. Early(b, c) \in BOOLEAN  BY DEF Early, Moving, Awaits
  <2>2. past'.raced = past.raced \cup (IF Early(b, c) THEN {c} ELSE {})  BY <2>1, RacedTyped DEF advance
  <2>3. QED  BY <2>2
<1>6. \A d \in Boards, e \in Cards \ {c} : Keeps(d, e)
  <2>1. \A d \in Boards, e \in Cards \ {c} : cards'[e] = cards[e] /\ board'[d].feed = board[d].feed
          /\ board'[d].missed = board[d].missed /\ board'[d].cards[e] = board[d].cards[e]
    BY <1>3, <1>4
  <2>2. QED  BY <2>1, ViewKept
<1>7. ASSUME c \notin past'.raced PROVE ToldOf(c)'
  <2>1. ToldOf(c) /\ ~Moving(c) /\ ~Awaits(b, c) /\ c \notin board[b].missed
    BY <1>5, <1>7 DEF Told, Early
  <2>2. \A d \in Boards : Settles(d, c)  BY <2>1 DEF ToldOf
  <2>3. board[b].cards[c] = cards[c]  BY <2>1, <2>2 DEF Settles
  <2>4. ASSUME NEW d \in Boards PROVE NewsOf(l, d)'
    <3>1. CASE d = b
      <4>1. Own(l, d)' /\ ~Awaits(d, c)'  BY <1>1, <1>3, <2>1, <3>1 DEF Own, Awaits
      <4>2. QED  BY <1>1, <1>4, <2>3, <4>1 DEF NewsOf
    <3>2. CASE d # b
      <4>1. Settles(d, c)'  BY <1>3, <1>4, <2>2, <3>2, ViewKept DEF Keeps
      <4>2. ~Own(l, d)'  BY <1>1, <3>2 DEF Own
      <4>3. QED  BY <1>1, <4>1, <4>2, <3>2 DEF NewsOf
    <3>3. QED  BY <3>1, <3>2
  <2>5. QED  BY <1>1, <1>2, <2>1, <2>4, FirstCall
<1>8. \A m \in calls' : m.kind = "poll" => m.card = Null  BY <1>1, <1>2 DEF Typed, Fits
<1>9. \A m : m.kind # "poll" /\ m.card # c => (m \in calls' <=> m \in calls)  BY <1>1, <1>2
<1>10. Told'  BY <1>4, <1>5, <1>6, <1>7, <1>8, <1>9, ToldByCall
<1>11. Streams'
  <2>1. \A d \in Boards : board'[d].live = board[d].live /\ board'[d].feed = board[d].feed  BY <1>3
  <2>2. \A m \in calls' : m.kind = "poll" => m \in calls  BY <1>1, <1>2
  <2>3. QED  BY <1>4, <2>1, <2>2, StreamsKept
<1>12. QED  BY <1>10, <1>11

LEMMA NullOf == ASSUME PrintConstants PROVE Null \notin Boards /\ Null \notin Cards /\ Null \notin Nat
  BY DEF PrintConstants

\* The card is written where its call says; every poll read before is behind.
LEMMA ToldCommit ==
  ASSUME PrintConstants, Typed, Streams, Told, NEW k \in calls, k.kind \in {"move", "confirm"}, k.step = "sent",
         NEW l, l.kind = k.kind, l.board = k.board, l.card = k.card, l.step = "committed",
         cards' = [cards EXCEPT ![k.card] = l.to], calls' = (Behind(Null, k.card) \ {k}) \cup {l},
         UNCHANGED <<board, past>>
  PROVE  Streams' /\ Told'
<1> DEFINE c == k.card
<1>1. c \in Cards /\ Fits(k)  BY DEF Typed, Fits
<1>2. cards'[c] = l.to /\ \A e \in Cards \ {c} : cards'[e] = cards[e]  BY <1>1 DEF Typed
<1>3. \A d \in Boards, e \in Cards \ {c} : Keeps(d, e)  BY <1>2, ViewKept
<1>4. ASSUME c \notin past'.raced PROVE ToldOf(c)'
  <2>1. ToldOf(c)  BY <1>1, <1>4 DEF Told
  <2>2. ASSUME NEW d \in Boards PROVE NewsOf(l, d)'
    <3>1. NewsOf(k, d)  BY <2>1 DEF ToldOf
    <3>2. Own(l, d)' <=> Own(k, d)  BY DEF Own
    <3>3. Awaits(d, c)' <=> Awaits(d, c)  BY DEF Awaits
    <3>4. QED  BY <1>2, <3>1, <3>2, <3>3 DEF NewsOf
  <2>3. \A m : m.card = c => (m \in calls' <=> (m \in calls /\ m # k) \/ m = l)
    BY <1>1, NullOf, BehindCalls DEF Typed, Fits
  <2>4. QED  BY <1>1, <2>1, <2>2, <2>3, NextStep
<1>5. /\ \A m \in calls' : m.kind = "poll" => m.card = Null
      /\ \A m : m.kind # "poll" /\ m.card # c => (m \in calls' <=> m \in calls)
  BY <1>1, BehindCalls
<1>6. Told'  BY <1>1, <1>2, <1>3, <1>4, <1>5, ToldByCall
<1>7. Streams'
  <2>1. \A m \in calls' : m.kind = "poll" => m \in Behind(Null, c)  OBVIOUS
  <2>2. QED  BY <1>1, <1>2, <2>1, StreamsKept
<1>8. QED  BY <1>6, <1>7

\* The board of an answer shows a stage for the card; Null is no board.
Lays(b, c, stage) ==
  /\ \A d \in Boards : d # b => board'[d] = board[d]
  /\ b \in Boards =>
       /\ board'[b].feed = board[b].feed /\ board'[b].missed = board[b].missed
       /\ board'[b].live = board[b].live /\ board'[b].cards[c] = stage
       /\ \A e \in Cards \ {c} : board'[b].cards[e] = board[b].cards[e]

LEMMA ToldAnswer ==
  ASSUME PrintConstants, Typed, Streams, Told, NEW k \in calls, NEW stage,
         k.kind \in {"move", "confirm"}, k.step \in {"sent", "done"},
         UNCHANGED cards, past.raced \subseteq past'.raced, calls' = Behind(k.board, k.card) \ {k},
         Lays(k.board, k.card, stage),
         k.card \notin past'.raced => /\ k.board \in Boards => stage = cards[k.card]
                                      /\ k.step = "done" \/ k.kind = "move"
  PROVE  Streams' /\ Told'
<1> DEFINE b == k.board
           c == k.card
<1>1. c \in Cards /\ b \in Boards \cup {Null} /\ Fits(k)  BY DEF Typed, Fits, CallRow
<1>2. \A d \in Boards : d # b => board'[d] = board[d]  BY DEF Lays
<1>3. b # Null => /\ board'[b].feed = board[b].feed /\ board'[b].missed = board[b].missed
                  /\ board'[b].live = board[b].live /\ board'[b].cards[c] = stage
                  /\ \A e \in Cards \ {c} : board'[b].cards[e] = board[b].cards[e]
  BY <1>1 DEF Lays
<1>4. \A d \in Boards, e \in Cards \ {c} : Keeps(d, e)
  <2>1. \A d \in Boards, e \in Cards \ {c} : cards'[e] = cards[e] /\ board'[d].feed = board[d].feed
          /\ board'[d].missed = board[d].missed /\ board'[d].cards[e] = board[d].cards[e]
    BY <1>2, <1>3, NullOf
  <2>2. QED  BY <2>1, ViewKept
<1>5. ASSUME c \notin past'.raced PROVE ToldOf(c)'
  <2>1. ToldOf(c)  BY <1>1, <1>5 DEF Told
  <2>2. ASSUME NEW d \in Boards PROVE Settles(d, c)'
    <3>1. NewsOf(k, d)  BY <2>1 DEF ToldOf
    <3>2. CASE d = b
      <4>1. b # Null /\ Own(k, d)  BY <3>2, NullOf DEF Own
      <4>2. LastNews(d, c)  BY <1>5, <3>1, <4>1 DEF NewsOf, LastNews, Awaits
      <4>3. board'[d].feed = board[d].feed /\ board'[d].cards[c] = cards[c]  BY <1>3, <1>5, <3>2, <4>1
      <4>4. LastNews(d, c)'  BY <4>2, <4>3 DEF LastNews
      <4>5. QED  BY <4>3, <4>4 DEF Settles
    <3>3. CASE d # b
      <4>1. ~Own(k, d)  BY <3>3 DEF Own
      <4>2. Settles(d, c)  BY <3>1, <4>1 DEF NewsOf
      <4>3. QED  BY <1>1, <1>2, <3>3, <4>2, ViewKept DEF Keeps
    <3>4. QED  BY <3>2, <3>3
  <2>3. \A m : m.card = c => (m \in calls' <=> m \in calls /\ m # k)
    BY <1>1, NullOf, BehindCalls DEF Typed, Fits
  <2>4. QED  BY <1>1, <2>1, <2>2, <2>3, LastStep
<1>6. /\ \A m \in calls' : m.kind = "poll" => m.card = Null
      /\ \A m : m.kind # "poll" /\ m.card # c => (m \in calls' <=> m \in calls)
  BY <1>1, BehindCalls
<1>7. Told'  BY <1>1, <1>4, <1>5, <1>6, ToldByCall
<1>8. Streams'
  <2>1. \A m \in calls' : m.kind = "poll" => m \in Behind(Null, c) \/ \E d \in Boards : m \in Behind(d, c)
    BY <1>1
  <2>2. \A d \in Boards : board'[d].live = board[d].live /\ board'[d].feed = board[d].feed
    BY <1>2, <1>3, NullOf
  <2>3. QED  BY <1>1, <2>1, <2>2, StreamsKept
<1>9. QED  BY <1>7, <1>8
\* A frame at the end of a feed: news of its card, nothing to the others.
LEMMA Appended ==
  ASSUME PrintConstants, Typed, NEW b \in Boards, NEW frame \in Frame, NEW c \in Cards, UNCHANGED cards,
         board[b].feed \in Seq(Frame), board'[b].feed = Append(board[b].feed, frame),
         board'[b].missed = board[b].missed, board'[b].cards = board[b].cards
  PROVE  /\ frame.card # c => Keeps(b, c)
         /\ frame.card = c /\ frame.stage = cards[c] => LastNews(b, c)' /\ Settles(b, c)'
<1> DEFINE feed == board[b].feed
           more == Append(feed, frame)
           n == Len(feed)
<1>1. n \in Nat /\ DOMAIN feed = 1 .. n /\ feed # Null  BY DEF PrintConstants
<1>2. /\ more \in Seq(Frame) /\ DOMAIN more = 1 .. n + 1 /\ more[n + 1] = frame
      /\ \A i \in 1 .. n : more[i] = feed[i]
  OBVIOUS
<1>3. more # Null  BY <1>2 DEF PrintConstants
<1>4. board'[b].feed = more  OBVIOUS
<1> HIDE DEF more
<1>5. ASSUME frame.card # c PROVE Keeps(b, c)
  <2>1. Awaits(b, c)' <=> Awaits(b, c)
    <3>1. Awaits(b, c)' <=> \E i \in 1 .. n + 1 : more[i].card = c  BY <1>2, <1>3, <1>4 DEF Awaits
    <3>2. Awaits(b, c) <=> \E i \in 1 .. n : feed[i].card = c  BY <1>1 DEF Awaits
    <3>3. \A i \in 1 .. n + 1 : i = n + 1 \/ i \in 1 .. n  BY <1>1
    <3>4. QED  BY <3>1, <3>2, <3>3, <1>1, <1>2, <1>5
  <2>2. ASSUME LastNews(b, c) PROVE LastNews(b, c)'
    <3>1. SUFFICES ASSUME NEW i \in 1 .. n + 1, more[i].card = c,
                          \A j \in 1 .. n + 1 : j > i => more[j].card # c
                   PROVE  more[i].stage = cards[c]
      BY <1>2, <1>4 DEF LastNews
    <3>2. i \in 1 .. n  BY <3>1, <1>1, <1>2, <1>5
    <3>3. feed[i].card = c /\ \A j \in 1 .. n : j > i => feed[j].card # c  BY <3>1, <3>2, <1>1, <1>2
    <3>4. feed[i].stage = cards[c]  BY <3>2, <3>3, <2>2, <1>1 DEF LastNews
    <3>5. QED  BY <3>2, <3>4, <1>2
  <2>3. QED  BY <2>1, <2>2 DEF Keeps, Settles
<1>6. ASSUME frame.card = c, frame.stage = cards[c] PROVE LastNews(b, c)' /\ Settles(b, c)'
  <2>1. Awaits(b, c)'
    <3>1. n + 1 \in 1 .. n + 1  BY <1>1
    <3>2. QED  BY <3>1, <1>2, <1>3, <1>4, <1>6 DEF Awaits
  <2>2. LastNews(b, c)'
    <3>1. SUFFICES ASSUME NEW i \in 1 .. n + 1, more[i].card = c,
                          \A j \in 1 .. n + 1 : j > i => more[j].card # c
                   PROVE  more[i].stage = cards[c]
      BY <1>2, <1>4 DEF LastNews
    <3>2. n + 1 \in 1 .. n + 1 /\ ~(n + 1 > i)  BY <3>1, <1>1, <1>2, <1>6
    <3>3. i = n + 1  BY <3>2, <1>1
    <3>4. QED  BY <3>3, <1>2, <1>6
  <2>3. QED  BY <2>1, <2>2 DEF Settles
<1>7. QED  BY <1>5, <1>6

LEMMA ToldAnnounce ==
  ASSUME PrintConstants, Typed, Streams, Told, NEW k \in calls, Announce(k)
  PROVE  Streams' /\ Told'
<1> DEFINE c == k.card
           frame == [card |-> k.card, stage |-> k.to]
<1>0. PICK l : l = [k EXCEPT !.step = "done"]  OBVIOUS
<1>1. /\ k.kind \in {"move", "prepare", "confirm"} /\ c \in Cards /\ k.to \in Stages
      /\ calls' = (calls \ {k}) \cup {l} /\ k.step = "committed" /\ Fits(k)
      /\ UNCHANGED <<cards, past>>
  BY <1>0, Pushed DEF Announce, Typed
<1>2. l.step = "done" /\ l.kind = k.kind /\ l.board = k.board /\ l.card = c /\ l.to = k.to
  BY <1>0, <1>1, Stepped
<1>3. frame \in Frame /\ frame.card = c /\ frame.stage = k.to  BY <1>1 DEF Frame
<1> HIDE DEF frame
<1>4. \A b \in Boards : Hears(b) \in BOOLEAN  BY DEF Hears
<1>5. \A b \in Boards :
        /\ board'[b].cards = board[b].cards /\ board'[b].live = board[b].live
        /\ Hears(b) => /\ board[b].feed \in Seq(Frame) /\ board'[b].feed = Append(board[b].feed, frame)
                       /\ board'[b].missed = board[b].missed
        /\ ~Hears(b) => /\ board'[b].feed = board[b].feed
                        /\ board'[b].missed = board[b].missed \cup
                             (IF b = k.board \/ k.kind = "prepare" THEN {} ELSE {k.card})
  BY Pushed DEF frame
<1>6. ASSUME NEW b \in Boards, NEW e \in Cards \ {c} PROVE Keeps(b, e)
  <2>1. CASE Hears(b)  BY <1>1, <1>3, <1>5, <2>1, Appended
  <2>2. CASE ~Hears(b)  BY <1>1, <1>5, <2>2, ViewKept
  <2>3. QED  BY <2>1, <2>2, <1>4
<1>7. ASSUME c \notin past'.raced PROVE ToldOf(c)'
  <2>1. ToldOf(c)  BY <1>1, <1>7 DEF Told
  <2>2. ASSUME NEW b \in Boards PROVE NewsOf(l, b)'
    <3>1. NewsOf(k, b)  BY <2>1 DEF ToldOf
    <3>2. k.to = cards[c]  BY <1>1, <3>1 DEF NewsOf
    <3>3. Own(l, b)' <=> Own(k, b)  BY <1>2 DEF Own
    <3>4. (Own(k, b) => LastNews(b, c)') /\ (~Own(k, b) => Settles(b, c)')
      <4>1. CASE Hears(b)  BY <1>1, <1>3, <1>5, <3>2, <4>1, Appended
      <4>2. CASE ~Hears(b) /\ Own(k, b)
        <5>1. ~Awaits(b, c)  BY <1>1, <3>1, <4>2 DEF NewsOf
        <5>2. board'[b].feed = board[b].feed  BY <1>5, <4>2
        <5>3. LastNews(b, c)'  BY <5>1, <5>2 DEF LastNews, Awaits
        <5>4. QED  BY <4>2, <5>3
      <4>3. CASE ~Hears(b) /\ ~Own(k, b) /\ k.kind = "prepare"
        <5>1. Settles(b, c)  BY <1>1, <3>1, <4>3 DEF NewsOf
        <5>2. Keeps(b, c)  BY <1>1, <1>5, <4>3, ViewKept
        <5>3. QED  BY <4>3, <5>1, <5>2 DEF Keeps
      <4>4. CASE ~Hears(b) /\ ~Own(k, b) /\ k.kind # "prepare"
        <5>1. b # k.board  BY <1>1, <4>4 DEF Own
        <5>2. c \in board'[b].missed  BY <1>5, <4>4, <5>1
        <5>3. QED  BY <4>4, <5>2 DEF Settles
      <4>5. QED  BY <4>1, <4>2, <4>3, <4>4, <1>4
    <3>5. QED  BY <1>1, <1>2, <3>2, <3>3, <3>4 DEF NewsOf
  <2>3. \A m : m.card = c => (m \in calls' <=> (m \in calls /\ m # k) \/ m = l)  BY <1>1, <1>2
  <2>4. QED  BY <1>1, <1>2, <2>1, <2>2, <2>3, NextStep
<1>8. /\ \A m \in calls' : m.kind = "poll" => m.card = Null
      /\ \A m : m.kind # "poll" /\ m.card # c => (m \in calls' <=> m \in calls)
  BY <1>1, <1>2 DEF Typed, Fits
<1>9. Told'  BY <1>1, <1>6, <1>7, <1>8, ToldByCall
<1>10. Streams'
  <2>1. \A m \in calls' : m.kind = "poll" => m \in calls  BY <1>1, <1>2
  <2>2. \A b \in Boards : board'[b].live = board[b].live /\ (board'[b].feed # Null => board[b].feed # Null)
    BY <1>4, <1>5 DEF Hears
  <2>3. QED  BY <1>1, <2>1, <2>2, StreamsKept
<1>11. QED  BY <1>9, <1>10

LEMMA ToldMoves ==
  ASSUME PrintConstants, Typed, Streams, Told, NEW k \in calls,
         AdvancePrintJobStage(k) \/ advanced(k) \/ advanceFailed(k)
  PROVE  Streams' /\ Told'
<1>1. Fits(k) /\ k.kind = "move" /\ k.board \in Boards /\ k.card \in Cards /\ k.board # Null
  BY NullOf DEF Typed, AdvancePrintJobStage, advanced, advanceFailed, Fits
<1>2. CASE AdvancePrintJobStage(k)
  <2>1. PICK l : l = [k EXCEPT !.step = "committed"]  OBVIOUS
  <2>2. l.kind = k.kind /\ l.board = k.board /\ l.card = k.card /\ l.step = "committed" /\ l.to = k.to
    BY <1>1, <2>1, Stepped
  <2>3. /\ k.step = "sent" /\ cards' = [cards EXCEPT ![k.card] = l.to]
        /\ calls' = (Behind(Null, k.card) \ {k}) \cup {l} /\ UNCHANGED <<board, past>>
    BY <1>2, <2>1, <2>2 DEF AdvancePrintJobStage
  <2>4. QED  BY <1>1, <2>2, <2>3, ToldCommit
<1>3. CASE advanced(k)
  <2>1. ASSUME k.card \notin past'.raced PROVE k.to = cards[k.card]
    BY <1>1, <1>3, <2>1 DEF advanced, Told, ToldOf, NewsOf
  <2>2. Lays(k.board, k.card, k.to)
    <3>1. board' = [board EXCEPT ![k.board] = [board[k.board] EXCEPT !.cards = [@ EXCEPT ![k.card] = k.to]]]
      BY <1>3 DEF advanced, mergeCard
    <3>2. QED  BY <1>1, <3>1, BoardParts DEF Lays, Typed, BoardRow
  <2>3. k.step = "done" /\ UNCHANGED <<cards, past>> /\ calls' = Behind(k.board, k.card) \ {k}
    BY <1>3 DEF advanced
  <2>4. QED  BY <1>1, <2>1, <2>2, <2>3, ToldAnswer
<1>4. CASE advanceFailed(k)
  <2>0. (k.step = "done") \in BOOLEAN  OBVIOUS
  <2>1. past'.raced = past.raced \cup (IF k.step = "done" THEN {k.card} ELSE {})
    BY <1>1, <1>4, <2>0, RacedTyped DEF advanceFailed
  <2>2. ASSUME k.card \notin past'.raced PROVE k.from = cards[k.card]
    <3>1. k.card \notin past.raced /\ k.step = "sent"  BY <1>4, <2>1, <2>2 DEF advanceFailed
    <3>2. QED  BY <1>1, <3>1 DEF Told, ToldOf, NewsOf
  <2>3. Lays(k.board, k.card, k.from)
    <3>1. board' = [board EXCEPT ![k.board] = [board[k.board] EXCEPT !.cards = [@ EXCEPT ![k.card] = k.from],
                                                                 !.error = TRUE]]
      BY <1>4 DEF advanceFailed, revert
    <3>2. QED  BY <1>1, <3>1, BoardParts DEF Lays, Typed, BoardRow
  <2>4. k.step \in {"sent", "done"} /\ UNCHANGED cards /\ calls' = Behind(k.board, k.card) \ {k}
    BY <1>4 DEF advanceFailed
  <2>5. QED  BY <1>1, <2>1, <2>2, <2>3, <2>4, ToldAnswer
<1>5. QED  BY <1>2, <1>3, <1>4
(* The encode sheet's calls: no board shows anything else until they end.      *)
LEMMA ToldSent ==
  ASSUME PrintConstants, Typed, Streams, Told, NEW c \in Cards, NEW l,
         l.kind \in {"prepare", "confirm"}, l.card = c, l.step = "sent", l.board \in Boards \cup {Null},
         calls' = calls \cup {l}, UNCHANGED <<cards, board>>, past.raced \subseteq past'.raced,
         c \notin past'.raced => ~Moving(c) /\ (\A b \in Boards : Own(l, b) => ~Awaits(b, c))
  PROVE  Streams' /\ Told'
<1>1. \A b \in Boards, e \in Cards : Keeps(b, e)  BY ViewKept
<1>2. ASSUME c \notin past'.raced PROVE ToldOf(c)'
  <2>1. ToldOf(c) /\ ~Moving(c)  BY <1>2 DEF Told
  <2>2. ASSUME NEW b \in Boards PROVE NewsOf(l, b)'
    <3>1. Settles(b, c)'  BY <1>1, <2>1 DEF ToldOf, Keeps
    <3>2. Own(l, b)' => ~Awaits(b, c)'  BY <1>2 DEF Own, Awaits
    <3>3. QED  BY <3>1, <3>2 DEF NewsOf
  <2>3. QED  BY <2>1, <2>2, FirstCall
<1>3. /\ \A m \in calls' : m.kind = "poll" => m.card = Null
      /\ \A m : m.kind # "poll" /\ m.card # c => (m \in calls' <=> m \in calls)
  BY DEF Typed, Fits
<1>4. Told'  BY <1>1, <1>2, <1>3, ToldByCall
<1>5. Streams'
  <2>1. \A m \in calls' : m.kind = "poll" => m \in calls  OBVIOUS
  <2>2. QED  BY <2>1, StreamsKept
<1>6. QED  BY <1>4, <1>5

LEMMA ToldSheets ==
  ASSUME PrintConstants, Typed, Streams, Told, NEW b \in Boards,
         \/ \E c \in Cards : onEncode(b, c)
         \/ \E u \in Chips : writeChip(b, u) \/ nfcHelperWrite(b, u)
         \/ retryPrepare(b) \/ closeSheet(b) \/ confirm(b)
  PROVE  Streams' /\ Told'
<1>b. \A c \in Cards : Moving(c) \in BOOLEAN /\ Early(b, c) \in BOOLEAN  BY DEF Moving, Early
<1>s. ASSUME UNCHANGED <<cards, board, calls, past>> PROVE Streams' /\ Told'
  <2>1. \A d \in Boards, e \in Cards : Keeps(d, e)  BY <1>s, ViewKept
  <2>2. \A m \in calls : m.kind = "poll" => m.card = Null  BY DEF Typed, Fits
  <2>3. Told'  BY <1>s, <2>1, <2>2, ToldByViews
  <2>4. Streams'  BY <1>s DEF Streams
  <2>5. QED  BY <2>3, <2>4
<1>1. ASSUME NEW c \in Cards, onEncode(b, c) PROVE Streams' /\ Told'
  <2>1. PICK l : l = Call("prepare", b, c)  OBVIOUS
  <2>2. l.kind = "prepare" /\ l.board = b /\ l.card = c /\ l.step = "sent"  BY <2>1, CallFits
  <2>3. past.raced \subseteq past'.raced /\ (c \notin past'.raced => ~Moving(c))
    BY <1>1, <1>b, RacedTyped DEF onEncode
  <2>4. calls' = calls \cup {l} /\ UNCHANGED <<cards, board>>  BY <1>1, <2>1 DEF onEncode, prepare
  <2>5. \A d \in Boards : ~Own(l, d)  BY <2>2 DEF Own
  <2>6. QED  BY <2>2, <2>3, <2>4, <2>5, ToldSent
<1>2. ASSUME retryPrepare(b) PROVE Streams' /\ Told'
  <2>0. sheet[b].card \in Cards  BY <1>2, SheetParts DEF retryPrepare
  <2>p. PICK c \in Cards : c = sheet[b].card  BY <2>0
  <2>1. PICK l : l = Call("prepare", b, c)  OBVIOUS
  <2>2. l.kind = "prepare" /\ l.board = b /\ l.card = c /\ l.step = "sent"  BY <2>1, CallFits
  <2>3. past.raced \subseteq past'.raced /\ (c \notin past'.raced => ~Moving(c))
    BY <1>2, <1>b, <2>p, RacedTyped DEF retryPrepare
  <2>4. calls' = calls \cup {l} /\ UNCHANGED <<cards, board>>  BY <1>2, <2>p, <2>1 DEF retryPrepare, prepare
  <2>5. \A d \in Boards : ~Own(l, d)  BY <2>2 DEF Own
  <2>6. QED  BY <2>2, <2>3, <2>4, <2>5, ToldSent
<1>3. CASE closeSheet(b)  BY <1>3, <1>s DEF closeSheet
<1>4. ASSUME NEW u \in Chips, writeChip(b, u) PROVE Streams' /\ Told'  BY <1>4, <1>s DEF writeChip
<1>5. ASSUME NEW u \in Chips, nfcHelperWrite(b, u) PROVE Streams' /\ Told'
  <2>0. sheet[b].card \in Cards  BY <1>5, SheetParts DEF nfcHelperWrite, SheetReady
  <2>p. PICK c \in Cards : c = sheet[b].card  BY <2>0
  <2>1. PICK l : l = [Call("confirm", Null, c) EXCEPT !.uid = u]  OBVIOUS
  <2>2. l.kind = "confirm" /\ l.board = Null /\ l.card = c /\ l.step = "sent"  BY <2>1, ConfirmFits
  <2>3. past.raced \subseteq past'.raced /\ (c \notin past'.raced => ~Moving(c))
    BY <1>5, <1>b, <2>p, RacedTyped DEF nfcHelperWrite
  <2>4. calls' = calls \cup {l} /\ UNCHANGED <<cards, board>>  BY <1>5, <2>p, <2>1 DEF nfcHelperWrite
  <2>5. \A d \in Boards : ~Own(l, d)  BY <2>2, NullOf DEF Own
  <2>6. QED  BY <2>2, <2>3, <2>4, <2>5, ToldSent
<1>6. CASE confirm(b)
  <2>0. sheet[b].card \in Cards /\ sheet[b].uid \in Chips  BY <1>6, SheetParts DEF confirm, SheetReady
  <2>p. PICK c \in Cards : c = sheet[b].card  BY <2>0
  <2>u. PICK u \in Chips : u = sheet[b].uid  BY <2>0
  <2>1. PICK l : l = [Call("confirm", b, c) EXCEPT !.uid = u]  OBVIOUS
  <2>2. l.kind = "confirm" /\ l.board = b /\ l.card = c /\ l.step = "sent"  BY <2>1, ConfirmFits
  <2>3. past.raced \subseteq past'.raced /\ (c \notin past'.raced => ~Early(b, c))
    BY <1>6, <1>b, <2>p, RacedTyped DEF confirm
  <2>4. calls' = calls \cup {l} /\ UNCHANGED <<cards, board>>  BY <1>6, <2>p, <2>u, <2>1 DEF confirm
  <2>5. c \notin past'.raced => ~Moving(c) /\ (\A d \in Boards : Own(l, d) => ~Awaits(d, c))
    BY <2>2, <2>3 DEF Own, Early
  <2>6. QED  BY <2>2, <2>3, <2>4, <2>5, ToldSent
<1>7. QED  BY <1>1, <1>2, <1>3, <1>4, <1>5, <1>6

LEMMA ToldPrepare ==
  ASSUME PrintConstants, Typed, Streams, Told, NEW k \in calls, GetOrCreateForOrderItem(k)
  PROVE  Streams' /\ Told'
<1>1. /\ Fits(k) /\ k.kind = "prepare" /\ k.card \in Cards /\ k.board \in Boards
      /\ k.step \in {"sent", "minting"} /\ k \in CallRow
  BY DEF Typed, GetOrCreateForOrderItem, Fits
<1>2. UNCHANGED <<cards, board>>  BY DEF GetOrCreateForOrderItem
<1>3. past'.raced = past.raced
  <2>1. past \in Past  BY DEF Typed
  <2>2. QED  BY <2>1 DEF GetOrCreateForOrderItem, Past
<1>4. PICK l : /\ calls' = (calls \ {k}) \cup {l} /\ l.kind = "prepare" /\ l.card = k.card
               /\ \/ l.step = "minting"
                  \/ l.step = "committed" /\ l.to = cards[k.card]
  <2>1. CASE calls' = (calls \ {k}) \cup {[k EXCEPT !.step = "minting"]}
    <3>1. PICK l : l = [k EXCEPT !.step = "minting"]  OBVIOUS
    <3>2. l.kind = "prepare" /\ l.card = k.card /\ l.step = "minting"  BY <1>1, <3>1, Stepped
    <3>3. QED  BY <2>1, <3>1, <3>2
  <2>2. ASSUME NEW r, calls' = (calls \ {k}) \cup {[k EXCEPT !.step = "committed", !.to = cards[k.card], !.result = r]}
        PROVE  \E l : /\ calls' = (calls \ {k}) \cup {l} /\ l.kind = "prepare" /\ l.card = k.card
                      /\ l.step = "committed" /\ l.to = cards[k.card]
    <3>1. PICK l : l = [k EXCEPT !.step = "committed", !.to = cards[k.card], !.result = r]  OBVIOUS
    <3>2. l.kind = "prepare" /\ l.card = k.card /\ l.step = "committed" /\ l.to = cards[k.card]
      BY <1>1, <3>1 DEF CallRow
    <3>3. QED  BY <2>2, <3>1, <3>2
  <2>3. QED  BY <2>1, <2>2 DEF GetOrCreateForOrderItem
<1>5. \A b \in Boards, e \in Cards : Keeps(b, e)  BY <1>2, ViewKept
<1> DEFINE c == k.card
<1>6. ASSUME c \notin past'.raced PROVE ToldOf(c)'
  <2>1. ToldOf(c)  BY <1>1, <1>3, <1>6 DEF Told
  <2>2. ASSUME NEW b \in Boards PROVE NewsOf(l, b)'
    <3>1. NewsOf(k, b) /\ ~Own(k, b)  BY <1>1, <2>1 DEF ToldOf, Own
    <3>2. Settles(b, c)  BY <1>1, <3>1 DEF NewsOf
    <3>3. Settles(b, c)' /\ ~Own(l, b)'  BY <1>1, <1>4, <1>5, <3>2 DEF Keeps, Own
    <3>4. QED  BY <1>2, <1>4, <3>3 DEF NewsOf
  <2>3. \A m : m.card = c => (m \in calls' <=> (m \in calls /\ m # k) \/ m = l)  BY <1>1, <1>4
  <2>4. QED  BY <1>1, <1>4, <2>1, <2>2, <2>3, NextStep
<1>7. /\ \A m \in calls' : m.kind = "poll" => m.card = Null
      /\ \A m : m.kind # "poll" /\ m.card # c => (m \in calls' <=> m \in calls)
  BY <1>1, <1>4 DEF Typed, Fits
<1>8. Told'  BY <1>1, <1>2, <1>3, <1>5, <1>6, <1>7, ToldByCall
<1>9. Streams'
  <2>1. \A m \in calls' : m.kind = "poll" => m \in calls  BY <1>1, <1>4
  <2>2. QED  BY <1>1, <1>2, <2>1, StreamsKept
<1>10. QED  BY <1>8, <1>9

\* A sheet's call ends without a board having been told.
LEMMA ToldEnded ==
  ASSUME PrintConstants, Typed, Streams, Told, NEW k \in calls, k.kind \in {"prepare", "confirm"},
         k.step \in {"sent", "done"}, k.step = "done" /\ k.kind = "confirm" => k.card \in past'.raced,
         calls' = calls \ {k}, UNCHANGED <<cards, board>>, past.raced \subseteq past'.raced
  PROVE  Streams' /\ Told'
<1> DEFINE c == k.card
<1>1. c \in Cards /\ Fits(k)  BY DEF Typed, Fits
<1>2. \A b \in Boards, e \in Cards : Keeps(b, e)  BY ViewKept
<1>3. ASSUME c \notin past'.raced PROVE ToldOf(c)'
  <2>1. ToldOf(c)  BY <1>1, <1>3 DEF Told
  <2>2. ASSUME NEW b \in Boards PROVE Settles(b, c)'
    <3>1. NewsOf(k, b)  BY <2>1 DEF ToldOf
    <3>2. k.kind = "prepare" => ~Own(k, b)  BY DEF Own
    <3>3. Settles(b, c)  BY <1>3, <3>1, <3>2 DEF NewsOf
    <3>4. QED  BY <1>1, <1>2, <3>3 DEF Keeps
  <2>3. QED  BY <1>1, <2>1, <2>2, LastStep
<1>4. /\ \A m \in calls' : m.kind = "poll" => m.card = Null
      /\ \A m : m.kind # "poll" /\ m.card # c => (m \in calls' <=> m \in calls)
  BY <1>1 DEF Typed, Fits
<1>5. Told'  BY <1>1, <1>2, <1>3, <1>4, ToldByCall
<1>6. Streams'
  <2>1. \A m \in calls' : m.kind = "poll" => m \in calls  OBVIOUS
  <2>2. QED  BY <1>1, <2>1, StreamsKept
<1>7. QED  BY <1>5, <1>6

LEMMA ToldAnswers ==
  ASSUME PrintConstants, Typed, Streams, Told, NEW k \in calls,
         prepared(k) \/ prepareFailed(k) \/ EncodePrintJobTag(k) \/ onEncoded(k) \/ confirmFailed(k)
  PROVE  Streams' /\ Told'
<1>0. Fits(k) /\ k.card \in Cards /\ k.board \in Boards \cup {Null}
  BY DEF Typed, prepared, prepareFailed, EncodePrintJobTag, onEncoded, confirmFailed, Fits, CallRow
<1>1. CASE prepared(k)  BY <1>1, ToldEnded DEF prepared
<1>2. CASE prepareFailed(k)  BY <1>2, ToldEnded DEF prepareFailed
<1>3. CASE EncodePrintJobTag(k)
  <2>1. PICK l : l = [k EXCEPT !.step = "committed", !.to = "PACKING"]  OBVIOUS
  <2>2. l.kind = k.kind /\ l.board = k.board /\ l.card = k.card /\ l.step = "committed" /\ l.to = "PACKING"
    BY <1>0, <2>1, SteppedTo, StagesAre
  <2>3. /\ k.kind = "confirm" /\ k.step = "sent" /\ cards' = [cards EXCEPT ![k.card] = l.to]
        /\ calls' = (Behind(Null, k.card) \ {k}) \cup {l} /\ UNCHANGED <<board, past>>
    BY <1>3, <2>1, <2>2 DEF EncodePrintJobTag
  <2>4. QED  BY <2>2, <2>3, ToldCommit
<1>4. CASE onEncoded(k)
  <2>1. k.kind = "confirm" /\ k.step = "done" /\ k.to = "PACKING"  BY <1>0, <1>4 DEF onEncoded, Fits
  <2>2. UNCHANGED <<cards, past>> /\ calls' = Behind(k.board, k.card) \ {k}  BY <1>4 DEF onEncoded
  <2>3. Lays(k.board, k.card, "PACKING")
    <3>1. CASE k.board = Null  BY <1>4, <3>1, NullOf DEF onEncoded, Lays
    <3>2. CASE k.board # Null
      <4>1. board' = [board EXCEPT ![k.board] = [board[k.board] EXCEPT !.cards = [@ EXCEPT ![k.card] = "PACKING"]]]
        BY <1>4, <3>2 DEF onEncoded, mergeCard
      <4>2. QED  BY <1>0, <3>2, <4>1, BoardParts DEF Lays, Typed, BoardRow
    <3>3. QED  BY <3>1, <3>2
  <2>4. ASSUME k.card \notin past'.raced, k.board \in Boards PROVE "PACKING" = cards[k.card]
    <3>1. NewsOf(k, k.board)  BY <1>0, <2>2, <2>4 DEF Told, ToldOf
    <3>2. QED  BY <2>1, <3>1 DEF NewsOf
  <2>5. QED  BY <2>1, <2>2, <2>3, <2>4, ToldAnswer
<1>5. CASE confirmFailed(k)
  <2>0. (k.step = "done") \in BOOLEAN  OBVIOUS
  <2>1. past'.raced = past.raced \cup (IF k.step = "done" THEN {k.card} ELSE {})
    BY <1>0, <1>5, <2>0, RacedTyped DEF confirmFailed
  <2>2. QED  BY <1>5, <2>1, ToldEnded DEF confirmFailed
<1>6. QED  BY <1>1, <1>2, <1>3, <1>4, <1>5
-----------------------------------------------------------------------------
(***************************************************************************)
(* Tags and chips.  What a prepare answered, a ready sheet and a burnt chip    *)
(* name a tag of their own card; a card whose tag is being minted has none     *)
(* yet, and only one prepare mints it, unless two raced.                      *)
(***************************************************************************)
Burnt(k) ==
  /\ k.kind = "prepare" /\ k.step \in {"committed", "done"} => k.result \in TagsOf(k.card)
  /\ k.kind = "confirm" => k.uid \in Chips /\ chips[k.uid] \in TagsOf(k.card)
OneTag(c) ==
  /\ \A s, t \in TagsOf(c) : s = t
  /\ \A k, l \in Preparing(c) : k = l
  /\ Preparing(c) # {} => TagsOf(c) = {}
SheetTag(b) ==
  sheet[b] # Null =>
    /\ sheet[b].phase = "ready" => sheet[b].tag \in TagsOf(sheet[b].card)
    /\ sheet[b].uid # Null => sheet[b].uid \in Chips /\ chips[sheet[b].uid] \in TagsOf(sheet[b].card)
Minted ==
  /\ \A c \in Cards \ past.doubled : OneTag(c)
  /\ \A b \in Boards : SheetTag(b)
  /\ \A k \in calls : Burnt(k)
TagsSound == Minted /\ ChipOpensItsTag

LEMMA MintedInit == PrintConstants /\ PrintInit => TagsSound
<1> SUFFICES ASSUME PrintConstants, PrintInit PROVE TagsSound  OBVIOUS
<1>1. DOMAIN tags = {} /\ calls = {} /\ \A b \in Boards : sheet[b] = Null  BY DEF PrintInit
<1>2. QED  BY <1>1 DEF TagsSound, Minted, OneTag, SheetTag, TagsOf, Preparing, ChipOpensItsTag

\* A tag's card is for good; a burnt chip keeps its address.
LEMMA BurntKept ==
  ASSUME PrintConstants, Typed, \A c \in Cards : TagsOf(c) \subseteq TagsOf(c)',
         \A u \in Chips : chips[u] # Null => chips'[u] = chips[u]
  PROVE  /\ \A k \in calls : Burnt(k) => Burnt(k)'
         /\ \A b \in Boards : sheet'[b] = sheet[b] /\ SheetTag(b) => SheetTag(b)'
<1>1. \A c : Null \notin TagsOf(c)
  <2>1. DOMAIN tags = 1 .. Len(tags) /\ Len(tags) \in Nat  BY DEF Typed
  <2>2. QED  BY <2>1, NullOf DEF TagsOf
<1>2. ASSUME NEW u \in Chips, NEW c \in Cards, chips[u] \in TagsOf(c) PROVE chips'[u] \in TagsOf(c)'
  BY <1>1, <1>2
<1>3. ASSUME NEW k \in calls, Burnt(k) PROVE Burnt(k)'
  <2>1. k.kind \in {"prepare", "confirm"} => k.card \in Cards  BY DEF Typed, Fits
  <2>2. k.kind = "prepare" /\ k.step \in {"committed", "done"} => k.result \in TagsOf(k.card)'
    BY <1>3, <2>1 DEF Burnt
  <2>3. k.kind = "confirm" => k.uid \in Chips /\ chips'[k.uid] \in TagsOf(k.card)'
    BY <1>2, <1>3, <2>1 DEF Burnt
  <2>4. QED  BY <2>2, <2>3 DEF Burnt
<1>4. ASSUME NEW b \in Boards, sheet'[b] = sheet[b], SheetTag(b) PROVE SheetTag(b)'
  <2>1. SUFFICES ASSUME sheet[b] # Null
                 PROVE  /\ sheet[b].phase = "ready" => sheet[b].tag \in TagsOf(sheet[b].card)'
                        /\ sheet[b].uid # Null => sheet[b].uid \in Chips /\ chips'[sheet[b].uid] \in TagsOf(sheet[b].card)'
    BY <1>4 DEF SheetTag
  <2>2. sheet[b].card \in Cards  BY <2>1, SheetParts
  <2>3. QED  BY <1>2, <1>4, <2>1, <2>2 DEF SheetTag
<1>5. QED  BY <1>3, <1>4

\* Every step but a mint and an encode: tags stay, a chip is written once.
LEMMA TagsKept ==
  ASSUME PrintConstants, Typed, TagsSound, UNCHANGED tags, past'.doubled = past.doubled,
         \A u \in Chips : chips[u] # Null => chips'[u] = chips[u],
         \A c \in Cards : Preparing(c)' \subseteq Preparing(c),
         \A b \in Boards : sheet'[b] = sheet[b] \/ SheetTag(b)',
         \A k \in calls' : k \in calls \/ Burnt(k)'
  PROVE  TagsSound'
<1>1. \A c : TagsOf(c)' = TagsOf(c)  BY DEF TagsOf
<1>2. \A c \in Cards \ past'.doubled : OneTag(c)'  BY <1>1 DEF TagsSound, Minted, OneTag
<1>3. (\A k \in calls : Burnt(k) => Burnt(k)') /\ (\A b \in Boards : sheet'[b] = sheet[b] => SheetTag(b)')
  BY <1>1, BurntKept DEF TagsSound, Minted
<1>4. Minted'  BY <1>2, <1>3 DEF TagsSound, Minted
<1>5. ChipOpensItsTag'
  <2>1. SUFFICES ASSUME NEW t \in DOMAIN tags, tags[t].card \notin past.doubled, tags[t].uid # Null
                 PROVE  chips'[tags[t].uid] = t
    BY DEF ChipOpensItsTag
  <2>2. chips[tags[t].uid] = t  BY <2>1 DEF TagsSound, ChipOpensItsTag
  <2>3. t \in Nat /\ tags[t].uid \in Chips
    <3>1. tags \in Seq(Tag)  BY DEF Typed
    <3>2. tags[t] \in Tag /\ t \in Nat  BY <2>1, <3>1
    <3>3. QED  BY <2>1, <3>2 DEF Tag
  <2>4. QED  BY <2>2, <2>3, NullOf
<1>6. QED  BY <1>4, <1>5 DEF TagsSound
\* Steps that touch neither chips nor the sheets' calls.
LEMMA TagsApart ==
  ASSUME PrintConstants, Typed, TagsSound, UNCHANGED <<tags, chips>>, past'.doubled = past.doubled,
         \A b \in Boards : sheet'[b] = sheet[b] \/ sheet'[b] = Null,
         \A k \in calls' : k.kind \in {"prepare", "confirm"} => k \in calls
  PROVE  TagsSound'
<1>1. \A c \in Cards : Preparing(c)' \subseteq Preparing(c)  BY DEF Preparing
<1>2. \A b \in Boards : sheet'[b] = sheet[b] \/ SheetTag(b)'  BY DEF SheetTag
<1>3. \A k \in calls' : k \in calls \/ Burnt(k)'  BY DEF Burnt
<1>4. QED  BY <1>1, <1>2, <1>3, TagsKept

LEMMA TagsStream ==
  ASSUME PrintConstants, Typed, TagsSound, NEW b \in Boards,
         onopen(b) \/ subscribe(b) \/ onerror(b) \/ onStage(b) \/ tick(b) \/ reload(b)
  PROVE  TagsSound'
<1>1. UNCHANGED <<tags, chips>>  BY DEF onopen, subscribe, onerror, onStage, tick, reload
<1>2. past'.doubled = past.doubled  BY DEF onopen, subscribe, onerror, onStage, tick, reload, Typed, Past
<1>3. \A d \in Boards : sheet'[d] = sheet[d] \/ sheet'[d] = Null
  BY DEF onopen, subscribe, onerror, onStage, tick, reload, Typed
<1>4. Call("poll", b, Null).kind = "poll"  BY CallFits
<1>5. \A k \in calls' : k.kind \in {"prepare", "confirm"} => k \in calls
  BY <1>4 DEF onopen, subscribe, onerror, onStage, tick, reload
<1>6. QED  BY <1>1, <1>2, <1>3, <1>5, TagsApart

LEMMA TagsPolls ==
  ASSUME PrintConstants, Typed, TagsSound, NEW k \in calls, refetchPrintQueue(k) \/ polled(k)
  PROVE  TagsSound'
<1>1. Fits(k) /\ k \in CallRow /\ k.kind = "poll"  BY DEF Typed, refetchPrintQueue, polled, Fits
<1>2. UNCHANGED <<tags, chips, sheet, past>>  BY DEF refetchPrintQueue, polled
<1>3. [k EXCEPT !.step = "done", !.result = cards].kind = "poll"  BY <1>1 DEF CallRow
<1>4. \A m \in calls' : m.kind \in {"prepare", "confirm"} => m \in calls
  BY <1>3 DEF refetchPrintQueue, polled
<1>5. QED  BY <1>2, <1>4, TagsApart

LEMMA TagsAdvance ==
  ASSUME PrintConstants, Typed, TagsSound, NEW b \in Boards, NEW c \in Cards, NEW to \in Stages,
         c \in Tagged \/ to # "NFC_ENCODE", advance(b, c, to)
  PROVE  TagsSound'
<1>0. PICK l : l = [Call("move", b, c) EXCEPT !.to = to, !.from = board[b].cards[c]]  OBVIOUS
<1>1. l.kind = "move"
  <2> DEFINE was == board[b].cards[c]
             call == Call("move", b, c)
  <2>1. call \in CallRow /\ call.kind = "move"  BY CallFits
  <2>2. l = [call EXCEPT !.to = to, !.from = was]  BY <1>0
  <2> HIDE DEF was, call
  <2>3. QED  BY <2>1, <2>2 DEF CallRow
<1>2. calls' = calls \cup {l} /\ UNCHANGED <<tags, chips, sheet>>  BY <1>0 DEF advance
<1>3. past'.doubled = past.doubled
  <2>1. Early(b, c) \in BOOLEAN  BY DEF Early, Moving, Awaits
  <2>2. QED  BY <2>1, RacedTyped DEF advance
<1>4. QED  BY <1>1, <1>2, <1>3, TagsApart

LEMMA TagsMoves ==
  ASSUME PrintConstants, Typed, TagsSound, NEW k \in calls,
         AdvancePrintJobStage(k) \/ advanced(k) \/ advanceFailed(k)
  PROVE  TagsSound'
<1>1. Fits(k) /\ k.kind = "move" /\ k.card \in Cards
  BY DEF Typed, AdvancePrintJobStage, advanced, advanceFailed, Fits
<1>2. UNCHANGED <<tags, chips, sheet>>  BY DEF AdvancePrintJobStage, advanced, advanceFailed
<1>3. past'.doubled = past.doubled
  <2>1. (k.step = "done") \in BOOLEAN  OBVIOUS
  <2>2. QED  BY <1>1, <2>1, RacedTyped DEF AdvancePrintJobStage, advanced, advanceFailed
<1>4. [k EXCEPT !.step = "committed"].kind = "move"  BY <1>1, Stepped
<1>5. \A m \in calls' : m.kind \in {"prepare", "confirm"} => m \in calls
  BY <1>1, <1>4, BehindCalls DEF AdvancePrintJobStage, advanced, advanceFailed
<1>6. QED  BY <1>2, <1>3, <1>5, TagsApart

LEMMA TagsAnnounce ==
  ASSUME PrintConstants, Typed, TagsSound, NEW k \in calls, Announce(k)
  PROVE  TagsSound'
<1>0. PICK l : l = [k EXCEPT !.step = "done"]  OBVIOUS
<1>1. /\ k.kind \in {"move", "prepare", "confirm"} /\ k.card \in Cards /\ Fits(k) /\ k.step = "committed"
      /\ calls' = (calls \ {k}) \cup {l} /\ UNCHANGED <<tags, chips, sheet, past>>
  BY <1>0, Pushed DEF Announce, Typed
<1>2. l.step = "done" /\ l.kind = k.kind /\ l.card = k.card /\ l.uid = k.uid /\ l.result = k.result
  BY <1>0, <1>1, Stepped
<1>3. Burnt(l)'
  <2>1. Burnt(k)  BY DEF TagsSound, Minted
  <2>2. \A c : TagsOf(c)' = TagsOf(c)  BY <1>1 DEF TagsOf
  <2>3. QED  BY <1>1, <1>2, <2>1, <2>2 DEF Burnt
<1>4. \A c \in Cards : Preparing(c)' \subseteq Preparing(c)  BY <1>1, <1>2 DEF Preparing
<1>5. QED  BY <1>1, <1>3, <1>4, TagsKept

(* The sheet: what it opens, writes and sends names the tag it was given.      *)
LEMMA TagsSent ==
  ASSUME PrintConstants, Typed, TagsSound, UNCHANGED tags, past'.doubled = past.doubled,
         \A u \in Chips : chips[u] # Null => chips'[u] = chips[u],
         \A b \in Boards : sheet'[b] = sheet[b] \/ SheetTag(b)',
         NEW l, calls' = calls \cup {l}, l.step = "sent", Burnt(l)'
  PROVE  TagsSound'
<1>1. \A c \in Cards : Preparing(c)' \subseteq Preparing(c)  BY DEF Preparing
<1>2. QED  BY <1>1, TagsKept

LEMMA TagsSheets ==
  ASSUME PrintConstants, Typed, TagsSound, NEW b \in Boards,
         \/ \E c \in Cards : onEncode(b, c)
         \/ \E u \in Chips : writeChip(b, u) \/ nfcHelperWrite(b, u)
         \/ retryPrepare(b) \/ closeSheet(b) \/ confirm(b)
  PROVE  TagsSound'
<1>b. \A c \in Cards : Moving(c) \in BOOLEAN /\ Early(b, c) \in BOOLEAN  BY DEF Moving, Early
<1>s. SheetTag(b) /\ \A d \in Boards : SheetTag(d)  BY DEF TagsSound, Minted
<1>t. tags' = tags => \A c : TagsOf(c)' = TagsOf(c)  BY DEF TagsOf
<1>1. ASSUME NEW c \in Cards, onEncode(b, c) PROVE TagsSound'
  <2>1. PICK l : l = Call("prepare", b, c)  OBVIOUS
  <2>2. l.kind = "prepare" /\ l.step = "sent"  BY <2>1, CallFits
  <2>3. past'.doubled = past.doubled  BY <1>1, <1>b, RacedTyped DEF onEncode
  <2>4. \A d \in Boards : sheet'[d] = sheet[d] \/ sheet'[d] = Unfolded(c)  BY <1>1 DEF onEncode, Typed
  <2>5. \A d \in Boards : sheet'[d] = sheet[d] \/ SheetTag(d)'  BY <2>4, OpenedSheet DEF SheetTag
  <2>6. calls' = calls \cup {l} /\ UNCHANGED <<tags, chips>>  BY <1>1, <2>1 DEF onEncode, prepare
  <2>7. Burnt(l)'  BY <2>2 DEF Burnt
  <2>8. QED  BY <2>2, <2>3, <2>5, <2>6, <2>7, TagsSent
<1>2. ASSUME retryPrepare(b) PROVE TagsSound'
  <2>0. sheet[b].card \in Cards /\ sheet[b] \in SheetRow /\ sheet[b] # Null
    BY <1>2, SheetParts DEF retryPrepare
  <2>p. PICK c \in Cards : c = sheet[b].card  BY <2>0
  <2>1. PICK l : l = Call("prepare", b, c)  OBVIOUS
  <2>2. l.kind = "prepare" /\ l.step = "sent"  BY <2>1, CallFits
  <2>3. past'.doubled = past.doubled  BY <1>2, <1>b, <2>p, RacedTyped DEF retryPrepare
  <2>4. calls' = calls \cup {l} /\ UNCHANGED <<tags, chips>>  BY <1>2, <2>p, <2>1 DEF retryPrepare, prepare
  <2>5. /\ \A d \in Boards : d # b => sheet'[d] = sheet[d]
        /\ sheet'[b].phase = "preparing" /\ sheet'[b].uid = sheet[b].uid /\ sheet'[b].card = c
    <3>1. sheet' = [sheet EXCEPT ![b] = [sheet[b] EXCEPT !.phase = "preparing"]]  BY <1>2 DEF retryPrepare
    <3>2. QED  BY <2>0, <2>p, <3>1 DEF Typed, SheetRow
  <2>6. SheetTag(b)'  BY <1>s, <1>t, <2>0, <2>p, <2>4, <2>5 DEF SheetTag
  <2>7. Burnt(l)'  BY <2>2 DEF Burnt
  <2>8. QED  BY <2>2, <2>3, <2>4, <2>5, <2>6, <2>7, TagsSent
<1>3. CASE closeSheet(b)
  <2>1. \A d \in Boards : sheet'[d] = sheet[d] \/ sheet'[d] = Null  BY <1>3 DEF closeSheet, Typed
  <2>2. QED  BY <1>3, <2>1, TagsApart DEF closeSheet
<1>4. ASSUME NEW u \in Chips, writeChip(b, u) PROVE TagsSound'
  <2>1. sheet[b].card \in Cards /\ sheet[b] \in SheetRow /\ sheet[b] # Null
    BY <1>4, SheetParts DEF writeChip, SheetReady
  <2>2. sheet[b].tag \in TagsOf(sheet[b].card)  BY <1>4, <1>s DEF writeChip, SheetReady, SheetTag
  <2>3. chips' = [chips EXCEPT ![u] = sheet[b].tag] /\ chips[u] = Null  BY <1>4 DEF writeChip
  <2>4. chips'[u] = sheet[b].tag /\ \A v \in Chips : chips[v] # Null => chips'[v] = chips[v]
    BY <2>3 DEF Typed
  <2>5. /\ \A d \in Boards : d # b => sheet'[d] = sheet[d]
        /\ sheet'[b].tag = sheet[b].tag /\ sheet'[b].uid = u /\ sheet'[b].card = sheet[b].card
    <3>1. sheet' = [sheet EXCEPT ![b] = [sheet[b] EXCEPT !.uid = u]]  BY <1>4 DEF writeChip
    <3>2. QED  BY <2>1, <3>1 DEF Typed, SheetRow
  <2>6. UNCHANGED <<tags, calls, past>>  BY <1>4 DEF writeChip
  <2>7. SheetTag(b)'  BY <1>t, <2>2, <2>4, <2>5, <2>6 DEF SheetTag
  <2>8. \A c \in Cards : Preparing(c)' \subseteq Preparing(c)  BY <2>6 DEF Preparing
  <2>9. QED  BY <2>4, <2>5, <2>6, <2>7, <2>8, TagsKept
<1>5. ASSUME NEW u \in Chips, nfcHelperWrite(b, u) PROVE TagsSound'
  <2>0. sheet[b].card \in Cards  BY <1>5, SheetParts DEF nfcHelperWrite, SheetReady
  <2>p. PICK c \in Cards : c = sheet[b].card  BY <2>0
  <2>1. PICK l : l = [Call("confirm", Null, c) EXCEPT !.uid = u]  OBVIOUS
  <2>2. l.kind = "confirm" /\ l.card = c /\ l.step = "sent" /\ l.uid = u  BY <2>1, ConfirmFits
  <2>3. past'.doubled = past.doubled  BY <1>5, <1>b, <2>p, RacedTyped DEF nfcHelperWrite
  <2>4. sheet[b].tag \in TagsOf(c)  BY <1>5, <1>s, <2>p DEF nfcHelperWrite, SheetReady, SheetTag
  <2>5. chips' = [chips EXCEPT ![u] = sheet[b].tag] /\ chips[u] = Null  BY <1>5 DEF nfcHelperWrite
  <2>6. chips'[u] = sheet[b].tag /\ \A v \in Chips : chips[v] # Null => chips'[v] = chips[v]
    BY <2>5 DEF Typed
  <2>7. calls' = calls \cup {l} /\ UNCHANGED <<tags, sheet>>  BY <1>5, <2>p, <2>1 DEF nfcHelperWrite
  <2>8. Burnt(l)'  BY <1>t, <2>2, <2>4, <2>6, <2>7 DEF Burnt
  <2>9. QED  BY <2>2, <2>3, <2>6, <2>7, <2>8, TagsSent
<1>6. CASE confirm(b)
  <2>0. sheet[b].card \in Cards /\ sheet[b].uid \in Chips /\ sheet[b] # Null /\ sheet[b].uid # Null /\ sheet[b] \in SheetRow
    BY <1>6, SheetParts DEF confirm, SheetReady
  <2>p. PICK c \in Cards : c = sheet[b].card  BY <2>0
  <2>u. PICK u \in Chips : u = sheet[b].uid  BY <2>0
  <2>1. PICK l : l = [Call("confirm", b, c) EXCEPT !.uid = u]  OBVIOUS
  <2>2. l.kind = "confirm" /\ l.card = c /\ l.step = "sent" /\ l.uid = u  BY <2>1, ConfirmFits
  <2>3. past'.doubled = past.doubled  BY <1>6, <1>b, <2>p, RacedTyped DEF confirm
  <2>4. chips[u] \in TagsOf(c)  BY <1>s, <2>0, <2>p, <2>u DEF SheetTag
  <2>5. calls' = calls \cup {l} /\ UNCHANGED <<tags, chips>>  BY <1>6, <2>p, <2>u, <2>1 DEF confirm
  <2>6. Burnt(l)'  BY <1>t, <2>2, <2>4, <2>5 DEF Burnt
  <2>7. /\ \A d \in Boards : d # b => sheet'[d] = sheet[d]
        /\ sheet'[b].tag = sheet[b].tag /\ sheet'[b].uid = u /\ sheet'[b].card = c
        /\ sheet'[b].phase = sheet[b].phase
    <3>1. sheet' = [sheet EXCEPT ![b] = [sheet[b] EXCEPT !.submitting = TRUE]]  BY <1>6 DEF confirm
    <3>2. QED  BY <2>0, <2>p, <2>u, <3>1 DEF Typed, SheetRow
  <2>8. SheetTag(b)'  BY <1>s, <1>t, <2>0, <2>p, <2>4, <2>5, <2>7 DEF SheetTag
  <2>9. QED  BY <2>2, <2>3, <2>5, <2>6, <2>7, <2>8, TagsSent
<1>7. QED  BY <1>1, <1>2, <1>3, <1>4, <1>5, <1>6
LEMMA TagsPrepare ==
  ASSUME PrintConstants, Typed, TagsSound, NEW k \in calls, GetOrCreateForOrderItem(k)
  PROVE  TagsSound'
<1> DEFINE c == k.card
<1>1. /\ Fits(k) /\ k \in CallRow /\ k.kind = "prepare" /\ c \in Cards /\ k.step \in {"sent", "minting"}
      /\ UNCHANGED <<chips, sheet>> /\ past \in Past
  BY DEF Typed, GetOrCreateForOrderItem, Fits
<1>2. CASE k.step = "sent" /\ TagsOf(c) # {}
  <2>1. PICK l : l = [k EXCEPT !.step = "committed", !.to = cards[c], !.result = Oldest(c)]  OBVIOUS
  <2>2. l.kind = "prepare" /\ l.card = c /\ l.step = "committed" /\ l.result = Oldest(c)
    BY <1>1, <2>1 DEF CallRow
  <2>3. calls' = (calls \ {k}) \cup {l} /\ UNCHANGED <<tags, past>>  BY <1>2, <2>1 DEF GetOrCreateForOrderItem
  <2>4. Burnt(l)'
    <3>1. TagsOf(c)' = TagsOf(c)  BY <2>3 DEF TagsOf
    <3>2. QED  BY <1>1, <1>2, <2>2, <3>1, OldestIs DEF Burnt
  <2>5. \A e \in Cards : Preparing(e)' \subseteq Preparing(e)  BY <2>2, <2>3 DEF Preparing
  <2>6. QED  BY <1>1, <2>3, <2>4, <2>5, TagsKept
<1>3. CASE k.step = "sent" /\ TagsOf(c) = {}
  <2>1. PICK l : l = [k EXCEPT !.step = "minting"]  OBVIOUS
  <2>2. l.kind = "prepare" /\ l.card = c /\ l.step = "minting"  BY <1>1, <2>1, Stepped
  <2>3. calls' = (calls \ {k}) \cup {l} /\ UNCHANGED tags  BY <1>3, <2>1 DEF GetOrCreateForOrderItem
  <2>4. past'.doubled = past.doubled \cup (IF Preparing(c) = {} THEN {} ELSE {c})
    <3> DEFINE more == IF Preparing(c) = {} THEN {} ELSE {c}
    <3>1. past' = [past EXCEPT !.doubled = @ \cup more]  BY <1>3 DEF GetOrCreateForOrderItem
    <3> HIDE DEF more
    <3>2. past'.doubled = past.doubled \cup more  BY <1>1, <3>1 DEF Past
    <3>3. QED  BY <3>2 DEF more
  <2>5. \A e : TagsOf(e)' = TagsOf(e)  BY <2>3 DEF TagsOf
  <2>6. ASSUME NEW e \in Cards \ past'.doubled PROVE OneTag(e)'
    <3>1. OneTag(e)  BY <2>4, <2>6 DEF TagsSound, Minted
    <3>2. CASE e # c
      <4>1. Preparing(e)' = Preparing(e)  BY <1>1, <2>2, <2>3, <3>2 DEF Preparing
      <4>2. QED  BY <2>5, <3>1, <4>1 DEF OneTag
    <3>3. CASE e = c
      <4>1. Preparing(c) = {}  BY <2>4, <2>6, <3>3
      <4>2. \A m \in Preparing(c)' : m = l  BY <2>3, <4>1 DEF Preparing
      <4>3. QED  BY <1>3, <2>5, <3>3, <4>2 DEF OneTag
    <3>4. QED  BY <3>2, <3>3
  <2>7. Burnt(l)' /\ (\A m \in calls : Burnt(m) => Burnt(m)') /\ (\A b \in Boards : SheetTag(b) => SheetTag(b)')
    BY <1>1, <2>2, <2>5, BurntKept DEF Burnt
  <2>8. ChipOpensItsTag'  BY <1>1, <2>3, <2>4 DEF TagsSound, ChipOpensItsTag
  <2>9. QED  BY <2>3, <2>6, <2>7, <2>8 DEF TagsSound, Minted
<1>4. CASE k.step = "minting"
  <2> DEFINE n == Len(tags) + 1
             tag == [card |-> c, status |-> "UNENCODED", uid |-> Null]
  <2>1. PICK l : l = [k EXCEPT !.step = "committed", !.to = cards[c], !.result = n]  OBVIOUS
  <2>2. l.kind = "prepare" /\ l.card = c /\ l.step = "committed" /\ l.result = n
    BY <1>1, <2>1 DEF CallRow
  <2>3. calls' = (calls \ {k}) \cup {l} /\ tags' = Append(tags, tag) /\ UNCHANGED past
    BY <1>4, <2>1 DEF GetOrCreateForOrderItem
  <2>4. tag \in Tag /\ tag.card = c /\ tag.uid = Null  BY <1>1 DEF Tag
  <2> HIDE DEF tag
  <2>5. tags \in Seq(Tag) /\ Len(tags) \in Nat /\ DOMAIN tags = 1 .. Len(tags)  BY DEF Typed
  <2>6. DOMAIN tags' = 1 .. n /\ tags'[n] = tag /\ \A i \in 1 .. Len(tags) : tags'[i] = tags[i]
    BY <2>3, <2>4, <2>5
  <2>7. /\ TagsOf(c)' = TagsOf(c) \cup {n}
        /\ \A e \in Cards \ {c} : TagsOf(e)' = TagsOf(e)
    <3>1. \A i \in 1 .. n : i = n \/ i \in 1 .. Len(tags)  BY <2>5
    <3>2. n \in 1 .. n /\ 1 .. Len(tags) \subseteq 1 .. n  BY <2>5
    <3>3. \A e : TagsOf(e)' = {t \in 1 .. n : tags'[t].card = e}  BY <2>6 DEF TagsOf
    <3>4. \A e : TagsOf(e) = {t \in 1 .. Len(tags) : tags[t].card = e}  BY <2>5 DEF TagsOf
    <3> HIDE DEF n
    <3>5. QED  BY <2>4, <2>6, <3>1, <3>2, <3>3, <3>4
  <2> HIDE DEF n
  <2>8. ASSUME NEW e \in Cards \ past'.doubled PROVE OneTag(e)'
    <3>1. OneTag(e)  BY <2>3, <2>8 DEF TagsSound, Minted
    <3>2. CASE e # c
      <4>1. Preparing(e)' \subseteq Preparing(e)  BY <2>2, <2>3 DEF Preparing
      <4>2. QED  BY <2>7, <2>8, <3>1, <3>2, <4>1 DEF OneTag
    <3>3. CASE e = c
      <4>1. k \in Preparing(c)  BY <1>1, <1>4 DEF Preparing
      <4>2. TagsOf(c) = {} /\ \A m \in Preparing(c) : m = k  BY <3>1, <3>3, <4>1 DEF OneTag
      <4>3. Preparing(c)' = {}  BY <2>2, <2>3, <4>2 DEF Preparing
      <4>4. QED  BY <2>7, <3>3, <4>2, <4>3 DEF OneTag
    <3>4. QED  BY <3>2, <3>3
  <2>9. \A e \in Cards : TagsOf(e) \subseteq TagsOf(e)'  BY <1>1, <2>7
  <2>10. Burnt(l)' /\ (\A m \in calls : Burnt(m) => Burnt(m)') /\ (\A b \in Boards : SheetTag(b) => SheetTag(b)')
    <3>1. Burnt(l)'  BY <2>2, <2>7 DEF Burnt
    <3>2. QED  BY <1>1, <2>9, <3>1, BurntKept
  <2>11. ChipOpensItsTag'
    <3>1. \A t \in 1 .. Len(tags) : tags'[t] = tags[t]  BY <2>6
    <3>2. \A t \in DOMAIN tags' : t = n \/ t \in 1 .. Len(tags)  BY <2>5, <2>6 DEF n
    <3>3. tags'[n].uid = Null  BY <2>4, <2>6
    <3>4. QED  BY <1>1, <2>3, <2>5, <3>1, <3>2, <3>3 DEF TagsSound, ChipOpensItsTag
  <2>12. QED  BY <2>3, <2>8, <2>10, <2>11, <1>1 DEF TagsSound, Minted
<1>5. QED  BY <1>1, <1>2, <1>3, <1>4

LEMMA TagsAnswers ==
  ASSUME PrintConstants, Typed, TagsSound, NEW k \in calls,
         prepared(k) \/ prepareFailed(k) \/ EncodePrintJobTag(k) \/ onEncoded(k) \/ confirmFailed(k)
  PROVE  TagsSound'
<1>0. /\ Fits(k) /\ k.card \in Cards /\ k.board \in Boards \cup {Null} /\ k.kind \in {"prepare", "confirm"}
      /\ Burnt(k) /\ \A b \in Boards : SheetTag(b)
  BY DEF Typed, prepared, prepareFailed, EncodePrintJobTag, onEncoded, confirmFailed, Fits, CallRow, TagsSound, Minted
<1>s. ASSUME calls' \subseteq calls, UNCHANGED <<tags, chips>>, past'.doubled = past.doubled,
             \A b \in Boards : sheet'[b] = sheet[b] \/ SheetTag(b)'
      PROVE  TagsSound'
  <2>1. \A c \in Cards : Preparing(c)' \subseteq Preparing(c)  BY <1>s DEF Preparing
  <2>2. QED  BY <1>s, <2>1, TagsKept
<1>t. tags' = tags => \A c : TagsOf(c)' = TagsOf(c)  BY DEF TagsOf
\* The sheet of the answer keeps its tag and its chip.
<1>r. ASSUME NEW row, Shows(k.board, k.card), k.board \in Boards, sheet' = [sheet EXCEPT ![k.board] = row],
             UNCHANGED <<tags, chips>>, row.card = k.card, row.uid = sheet[k.board].uid,
             row.phase = "ready" => row.tag \in TagsOf(k.card)
      PROVE  \A b \in Boards : sheet'[b] = sheet[b] \/ SheetTag(b)'
  <2>1. \A b \in Boards : b # k.board => sheet'[b] = sheet[b]  BY <1>r DEF Typed
  <2>2. sheet'[k.board] = row  BY <1>r DEF Typed
  <2>3. sheet[k.board] # Null /\ sheet[k.board].card = k.card  BY <1>r DEF Shows
  <2>4. SheetTag(k.board)'  BY <1>0, <1>r, <1>t, <2>2, <2>3 DEF SheetTag
  <2>5. QED  BY <2>1, <2>4
<1>1. CASE prepared(k)
  <2>1. k.board \in Boards /\ k.result \in TagsOf(k.card)  BY <1>0, <1>1 DEF prepared, Fits, Burnt
  <2>2. CASE Shows(k.board, k.card)
    <3>1. PICK row : row = [sheet[k.board] EXCEPT !.phase = "ready", !.tag = k.result]  OBVIOUS
    <3>2. row.card = k.card /\ row.uid = sheet[k.board].uid /\ row.tag = k.result
      BY <2>1, <2>2, <3>1, SheetParts DEF SheetRow, Shows
    <3>3. sheet' = [sheet EXCEPT ![k.board] = row]  BY <1>1, <2>2, <3>1 DEF prepared
    <3>4. QED  BY <1>1, <1>r, <1>s, <2>1, <2>2, <3>2, <3>3 DEF prepared
  <2>3. CASE ~Shows(k.board, k.card)  BY <1>1, <1>s, <2>3 DEF prepared
  <2>4. QED  BY <2>2, <2>3
<1>2. CASE prepareFailed(k)
  <2>1. k.board \in Boards  BY <1>0, <1>2 DEF prepareFailed, Fits
  <2>2. CASE Shows(k.board, k.card)
    <3>1. PICK row : row = [sheet[k.board] EXCEPT !.phase = "prepareError"]  OBVIOUS
    <3>2. row.card = k.card /\ row.uid = sheet[k.board].uid /\ row.phase = "prepareError"
      BY <2>1, <2>2, <3>1, SheetParts DEF SheetRow, Shows
    <3>3. sheet' = [sheet EXCEPT ![k.board] = row]  BY <1>2, <2>2, <3>1 DEF prepareFailed
    <3>4. QED  BY <1>2, <1>r, <1>s, <2>1, <2>2, <3>2, <3>3 DEF prepareFailed
  <2>3. CASE ~Shows(k.board, k.card)  BY <1>2, <1>s, <2>3 DEF prepareFailed
  <2>4. QED  BY <2>2, <2>3
<1>3. CASE EncodePrintJobTag(k)
  <2> DEFINE t0 == Oldest(k.card)
  <2>1. PICK l : l = [k EXCEPT !.step = "committed", !.to = "PACKING"]  OBVIOUS
  <2>2. l.kind = "confirm" /\ l.card = k.card /\ l.step = "committed" /\ l.uid = k.uid
    BY <1>0, <1>3, <2>1, SteppedTo, StagesAre DEF EncodePrintJobTag
  <2>3. /\ k.kind = "confirm" /\ calls' = (Behind(Null, k.card) \ {k}) \cup {l}
        /\ UNCHANGED <<chips, sheet, past>>
        /\ tags' = [tags EXCEPT ![t0].status = "ENCODED", ![t0].uid = k.uid]
    BY <1>3, <2>1 DEF EncodePrintJobTag
  <2>4. k.uid \in Chips /\ chips[k.uid] \in TagsOf(k.card)  BY <1>0, <2>3 DEF Burnt
  <2>5. t0 \in TagsOf(k.card)  BY <1>0, <2>4, OldestIs
  <2> HIDE DEF t0
  <2>6. /\ DOMAIN tags' = DOMAIN tags
        /\ \A i \in DOMAIN tags : tags'[i].card = tags[i].card /\ (i # t0 => tags'[i] = tags[i])
                                 /\ (i = t0 => tags'[i].uid = k.uid)
    BY <2>3, <2>4, TagEncoded
  <2>7. \A c : TagsOf(c)' = TagsOf(c)  BY <2>6 DEF TagsOf
  <2>8. \A m \in calls' : m.kind \in {"prepare", "confirm"} => m = l \/ m \in calls
    BY <1>0, <2>3, BehindCalls
  <2>9. ASSUME NEW c \in Cards \ past'.doubled PROVE OneTag(c)'
    <3>1. OneTag(c)  BY <2>3, <2>9 DEF TagsSound, Minted
    <3>2. Preparing(c)' \subseteq Preparing(c)  BY <2>2, <2>8 DEF Preparing
    <3>3. QED  BY <2>7, <3>1, <3>2 DEF OneTag
  <2>10. (\A m \in calls : Burnt(m) => Burnt(m)') /\ (\A b \in Boards : SheetTag(b) => SheetTag(b)')
    BY <2>3, <2>7, BurntKept
  <2>11. Burnt(l)'  BY <2>2, <2>3, <2>4, <2>7 DEF Burnt
  <2>12. \A m \in calls' : Burnt(m)'
    <3>1. \A m \in calls' : m.kind \notin {"prepare", "confirm"} => Burnt(m)'  BY DEF Burnt
    <3>2. QED  BY <2>8, <2>10, <2>11, <3>1 DEF TagsSound, Minted
  <2>13. ChipOpensItsTag'
    <3>1. SUFFICES ASSUME NEW t \in DOMAIN tags, tags[t].card \notin past.doubled, tags'[t].uid # Null
                   PROVE  chips[tags'[t].uid] = t
      BY <2>3, <2>6 DEF ChipOpensItsTag
    <3>2. CASE t = t0
      <4>1. OneTag(k.card) /\ tags[t].card = k.card  BY <1>0, <2>5, <3>1, <3>2 DEF TagsSound, Minted, TagsOf
      <4>2. chips[k.uid] = t0  BY <2>4, <2>5, <4>1 DEF OneTag
      <4>3. QED  BY <2>6, <3>2, <4>2
    <3>3. CASE t # t0  BY <2>6, <3>1, <3>3 DEF TagsSound, ChipOpensItsTag
    <3>4. QED  BY <3>2, <3>3
  <2>14. Minted'  BY <1>0, <2>9, <2>10, <2>12 DEF Minted
  <2>15. QED  BY <2>13, <2>14 DEF TagsSound
<1>4. CASE onEncoded(k)
  <2>1. \A b \in Boards : sheet'[b] = sheet[b] \/ sheet'[b] = Null  BY <1>4 DEF onEncoded, Typed
  <2>2. \A m \in calls' : m.kind \in {"prepare", "confirm"} => m \in calls
    BY <1>0, <1>4, BehindCalls DEF onEncoded
  <2>3. QED  BY <1>4, <2>1, <2>2, TagsApart DEF onEncoded
<1>5. CASE confirmFailed(k)
  <2>0. (k.step = "done") \in BOOLEAN  OBVIOUS
  <2>1. past'.doubled = past.doubled  BY <1>0, <1>5, <2>0, RacedTyped DEF confirmFailed
  <2>2. CASE k.board # Null /\ Shows(k.board, k.card)
    <3>0. k.board \in Boards /\ sheet[k.board] \in SheetRow /\ sheet[k.board].card = k.card /\ sheet[k.board] # Null
      BY <1>0, <2>2, SheetParts DEF Shows
    <3>1. PICK row : row = [sheet[k.board] EXCEPT !.submitting = FALSE]  OBVIOUS
    <3>2. /\ row.card = k.card /\ row.uid = sheet[k.board].uid /\ row.phase = sheet[k.board].phase
          /\ row.tag = sheet[k.board].tag
      BY <3>0, <3>1 DEF SheetRow
    <3>3. sheet' = [sheet EXCEPT ![k.board] = row]  BY <1>5, <2>2, <3>1 DEF confirmFailed
    <3>4. row.phase = "ready" => row.tag \in TagsOf(k.card)  BY <1>0, <3>0, <3>2 DEF SheetTag
    <3>5. QED  BY <1>5, <1>r, <1>s, <2>1, <2>2, <3>0, <3>2, <3>3, <3>4 DEF confirmFailed
  <2>3. CASE ~(k.board # Null /\ Shows(k.board, k.card))  BY <1>5, <1>s, <2>1, <2>3 DEF confirmFailed
  <2>4. QED  BY <2>2, <2>3
<1>6. QED  BY <1>1, <1>2, <1>3, <1>4, <1>5

-----------------------------------------------------------------------------
(* The inductive invariant, step by step.                                    *)
PrintInv == Typed /\ Streams /\ Told /\ TagsSound

LEMMA PrintInvNext ==
  ASSUME PrintConstants
  PROVE  PrintInv /\ [PrintNext]_printVars => PrintInv'
<1> SUFFICES ASSUME Typed, Streams, Told, TagsSound, [PrintNext]_printVars
             PROVE  Typed' /\ (Streams' /\ Told') /\ TagsSound'
  BY DEF PrintInv
<1>1. CASE StreamNext  BY <1>1, TypedStream, ToldStream, TagsStream DEF StreamNext
<1>2. CASE PollNext  BY <1>2, TypedPolls, ToldPolls, TagsPolls DEF PollNext
<1>3. CASE MoveNext
  <2>1. ASSUME NEW b \in Boards, NEW c \in Cards,
               onAdvance(b, c) \/ \E to \in DropTargets : onDragEnd(b, c, to)
        PROVE  Typed' /\ (Streams' /\ Told') /\ TagsSound'
    <3>1. PICK to \in Stages : (c \in Tagged \/ to # "NFC_ENCODE") /\ advance(b, c, to)
      BY <2>1, MoveIsAdvance
    <3>2. QED  BY <3>1, TypedAdvance, ToldAdvance, TagsAdvance
  <2>2. ASSUME NEW k \in calls, AdvancePrintJobStage(k) \/ advanced(k) \/ advanceFailed(k)
        PROVE  Typed' /\ (Streams' /\ Told') /\ TagsSound'
    BY <2>2, TypedMoves, ToldMoves, TagsMoves
  <2>3. QED  BY <1>3, <2>1, <2>2 DEF MoveNext
<1>4. CASE SheetNext
  <2>1. ASSUME NEW b \in Boards,
               \/ \E c \in Cards : onEncode(b, c)
               \/ \E u \in Chips : writeChip(b, u) \/ nfcHelperWrite(b, u)
               \/ retryPrepare(b) \/ closeSheet(b) \/ confirm(b)
        PROVE  Typed' /\ (Streams' /\ Told') /\ TagsSound'
    BY <2>1, TypedSheets, ToldSheets, TagsSheets
  <2>2. ASSUME NEW k \in calls, GetOrCreateForOrderItem(k)
        PROVE  Typed' /\ (Streams' /\ Told') /\ TagsSound'
    BY <2>2, TypedPrepare, ToldPrepare, TagsPrepare
  <2>3. ASSUME NEW k \in calls,
               prepared(k) \/ prepareFailed(k) \/ EncodePrintJobTag(k) \/ onEncoded(k) \/ confirmFailed(k)
        PROVE  Typed' /\ (Streams' /\ Told') /\ TagsSound'
    <3>1. TagsOf(k.card) # {} \/ k.kind # "confirm"  BY DEF TagsSound, Minted, Burnt
    <3>2. QED  BY <2>3, <3>1, TypedAnswers, ToldAnswers, TagsAnswers
  <2>4. QED  BY <1>4, <2>1, <2>2, <2>3 DEF SheetNext
<1>5. CASE PushNext  BY <1>5, TypedAnnounce, ToldAnnounce, TagsAnnounce DEF PushNext
<1>6. CASE UNCHANGED printVars
  <2>1. UNCHANGED <<cards, tags, chips, board, sheet, calls, past>>  BY <1>6 DEF printVars
  <2>2. \A c : TagsOf(c)' = TagsOf(c)  BY <2>1 DEF TagsOf
  <2>3. Typed'  BY <2>1, <2>2 DEF Typed
  <2>4. \A b \in Boards, c \in Cards : Keeps(b, c)  BY <2>1, ViewKept
  <2>5. \A k \in calls : k.kind = "poll" => k.card = Null  BY DEF Typed, Fits
  <2>6. Streams' /\ Told'  BY <2>1, <2>4, <2>5, ToldByViews DEF Streams
  <2>7. TagsSound'  BY <2>1, TagsApart
  <2>8. QED  BY <2>3, <2>6, <2>7
<1>7. QED  BY <1>1, <1>2, <1>3, <1>4, <1>5, <1>6 DEF PrintNext

LEMMA PrintInvariant ==
  ASSUME PrintConstants
  PROVE  PrintSpec => []PrintInv
<1>1. PrintInit => PrintInv  BY TypedInit, ToldInit, MintedInit DEF PrintInv
<1>2. QED  BY <1>1, PrintInvNext, PTL DEF PrintSpec

-----------------------------------------------------------------------------
(* A column of the board holds each card, a feed never outgrows the hub's      *)
(* buffer, and a card without a tag is never in the encode column.            *)
THEOREM DeskTypes ==
  ASSUME PrintConstants
  PROVE  PrintSpec => []PrintTypeOK
<1>1. PrintInv => PrintTypeOK
  <2>1. SUFFICES ASSUME Typed PROVE PrintTypeOK  BY DEF PrintInv
  <2>2. DOMAIN groupByStage(cards) = Stages  BY DEF groupByStage
  <2>3. \A c \in Cards : cards[c] \in Stages /\ (c \notin Tagged => cards[c] # "NFC_ENCODE")  BY <2>1 DEF Typed
  <2>4. \A b \in Boards : board[b].feed = Null \/ Len(board[b].feed) <= HubBuffer  BY <2>1 DEF Typed
  <2>5. \A k \in calls : k.card \in Cards \cup {Null} /\ k.board \in Boards \cup {Null}
    BY <2>1 DEF Typed, Fits, CallRow
  <2>6. QED  BY <2>2, <2>3, <2>4, <2>5 DEF PrintTypeOK
<1>2. QED  BY <1>1, PrintInvariant, PTL

(* A board left alone shows each card where it is, unless it missed the card's *)
(* last news or the card was raced, and a chip carries the address of the tag   *)
(* that records its uid, whoever moved, polled, encoded or lost an answer.     *)
THEOREM PrintDeskIsSound ==
  ASSUME PrintConstants
  PROVE  PrintSpec => []PrintDeskSound
<1>1. PrintInv => PrintDeskSound
  <2>1. SUFFICES ASSUME PrintInv PROVE BoardConverges  BY DEF PrintInv, TagsSound, PrintDeskSound
  <2>2. SUFFICES ASSUME NEW b \in Boards, NEW c \in Cards \ past.raced,
                        c \notin board[b].missed, ~Moving(c), ~Awaits(b, c)
                 PROVE  board[b].cards[c] = cards[c]
    BY DEF BoardConverges
  <2>3. Settles(b, c)  BY <2>1, <2>2 DEF PrintInv, Told, ToldOf
  <2>4. QED  BY <2>2, <2>3 DEF Settles
<1>2. QED  BY <1>1, PrintInvariant, PTL
=============================================================================
