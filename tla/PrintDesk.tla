----------------------------- MODULE PrintDesk -----------------------------
(***************************************************************************)
(* The print board in the browser (print-board.tsx, use-print-stream.ts,     *)
(* encode-tag-sheet.tsx) and the server side it hears from: the hub that     *)
(* pushes a card to every open board after the commit (print_stream.go) and  *)
(* the two-phase encode of a pet tag (admin_pettag_encode.go).  What a move  *)
(* does to filament and orders is PrintBoard's subject; here a move sets a   *)
(* stage.                                                                  *)
(*                                                                         *)
(* missed and raced are history: cards a board cannot have heard of, and     *)
(* cards whose stage was changed or read while earlier news of them was       *)
(* under way.                                                               *)
(***************************************************************************)
EXTENDS Naturals, Sequences, FiniteSets

CONSTANTS
  Boards,      \* browsers with the board open
  Cards,       \* print jobs
  Tagged,      \* those of a pet tag product
  Chips,       \* NFC chips on the desk
  HubBuffer,   \* bound of one subscriber's channel (16 in the code)
  DropTargets, \* bound: columns cards are dropped on
  MaxMoves,    \* bound: moves started and sheets prepared
  MaxBlips,    \* bound: stream connections lost
  MaxPolls,    \* bound: polls one board has under way
  Null

VARIABLES
  cards,    \* [Cards -> stage] of print_jobs
  tags,    \* pet_tags, oldest first
  chips,   \* [Chips -> tag whose address was burnt, or Null]
  board,   \* [Boards -> what the browser holds]
  sheet,   \* [Boards -> the encode sheet, or Null]
  calls,   \* requests under way
  past     \* [moves, blips, raced, doubled]

printVars == <<cards, tags, chips, board, sheet, calls, past>>

PRINT_STAGES == <<"NEED_PRINT", "PRINTING", "NFC_ENCODE", "PACKING", "SHIPPED">>
stagesFor(c) == IF c \in Tagged THEN PRINT_STAGES ELSE <<"NEED_PRINT", "PRINTING", "PACKING", "SHIPPED">>
nextStage(stage, c) ==
  LET seq == stagesFor(c)
  IN {seq[i + 1] : i \in {j \in 1 .. Len(seq) - 1 : seq[j] = stage}}
Stages == {PRINT_STAGES[i] : i \in DOMAIN PRINT_STAGES}
groupByStage(shown) == [s \in Stages |-> {c \in Cards : shown[c] = s}]

(* Every page load reads the board; the stream is not connected yet.          *)
Opened == [cards |-> cards, live |-> FALSE, feed |-> Null, missed |-> {}, error |-> FALSE]

PrintInit ==
  /\ cards \in [Cards -> Stages] /\ \A c \in Cards \ Tagged : cards[c] # "NFC_ENCODE"
  /\ tags = <<>> /\ chips = [u \in Chips |-> Null]
  /\ board = [b \in Boards |-> Opened]
  /\ sheet = [b \in Boards |-> Null]
  /\ calls = {}
  /\ past = [moves |-> 0, blips |-> 0, raced |-> {}, doubled |-> {}]

(***************************************************************************)
(* The stream.  The browser hears ": ok" before the hub knows the channel;   *)
(* a lost connection is reopened by the browser itself.                     *)
(***************************************************************************)
Call(kind, b, c) == [kind |-> kind, board |-> b, card |-> c, step |-> "sent", to |-> Null, from |-> Null,
                     uid |-> Null, result |-> Null, since |-> {}]
Moving(c) == \E k \in calls : k.card = c
Awaits(b, c) == board[b].feed # Null /\ \E i \in DOMAIN board[b].feed : board[b].feed[i].card = c
\* Earlier news of the card is under way, to the board that acts or to the server.
Early(b, c) == Moving(c) \/ Awaits(b, c) \/ c \in board[b].missed
Raced(early, c) == [past EXCEPT !.raced = @ \cup (IF early THEN {c} ELSE {})]
Polls(b) == {k \in calls : k.kind = "poll" /\ k.board = b}

onopen(b) ==
  /\ ~board[b].live
  /\ board' = [board EXCEPT ![b].live = TRUE]
  /\ calls' = calls \ Polls(b)   \* the poll's effect is torn down: its answer is dropped
  /\ UNCHANGED <<cards, tags, chips, sheet, past>>

subscribe(b) ==
  /\ board[b].live /\ board[b].feed = Null
  /\ board' = [board EXCEPT ![b].feed = <<>>]
  /\ UNCHANGED <<cards, tags, chips, sheet, calls, past>>

onerror(b) ==
  /\ board[b].live /\ past.blips < MaxBlips
  /\ board' = [board EXCEPT ![b].live = FALSE, ![b].feed = Null,
                  ![b].missed = @ \cup (IF board[b].feed = Null THEN {}
                                        ELSE {board[b].feed[i].card : i \in DOMAIN board[b].feed})]
  /\ past' = [past EXCEPT !.blips = @ + 1]
  /\ UNCHANGED <<cards, tags, chips, sheet, calls>>

(* broadcast: a channel that is full, or not there, misses the card.  To the    *)
(* board that asked, and of a card only prepared, that is no news.           *)
Hears(b) == board[b].feed # Null /\ Len(board[b].feed) < HubBuffer
broadcast(k) ==
  board' = [b \in Boards |->
    IF Hears(b) THEN [board[b] EXCEPT !.feed = Append(@, [card |-> k.card, stage |-> k.to])]
    ELSE IF b = k.board \/ k.kind = "prepare" THEN board[b]
    ELSE [board[b] EXCEPT !.missed = @ \cup {k.card}]]

mergeCard(shown, card, stage) == [shown EXCEPT ![card] = stage]

onStage(b) ==
  /\ board[b].feed \notin {Null, <<>>}
  /\ LET frame == Head(board[b].feed) IN
     board' = [board EXCEPT ![b].cards = mergeCard(@, frame.card, frame.stage), ![b].feed = Tail(@)]
  /\ UNCHANGED <<cards, tags, chips, sheet, calls, past>>

(* The fallback poll, only while the stream is down; a poll in flight does    *)
(* not stop the next tick.                                                  *)
tick(b) ==
  /\ ~board[b].live /\ Cardinality(Polls(b)) < MaxPolls
  /\ calls' = calls \cup {Call("poll", b, Null)}
  /\ UNCHANGED <<cards, tags, chips, board, sheet, past>>

refetchPrintQueue(k) ==
  /\ k.kind = "poll" /\ k.step = "sent"
  /\ calls' = (calls \ {k}) \cup {[k EXCEPT !.step = "done", !.result = cards]}
  /\ UNCHANGED <<cards, tags, chips, board, sheet, past>>

polled(k) ==
  /\ k.kind = "poll" /\ k.step = "done"
  /\ board' = [board EXCEPT ![k.board].cards = k.result, ![k.board].missed = k.since]
  /\ calls' = calls \ {k}
  /\ UNCHANGED <<cards, tags, chips, sheet, past>>

\* A poll that was read before this card's last news still has to be made up for.
Behind(b, c) == {IF k.kind = "poll" /\ k.step = "done" /\ (b = Null \/ k.board = b)
                 THEN [k EXCEPT !.since = @ \cup {c}] ELSE k : k \in calls}

(***************************************************************************)
(* Moving a card: shown at once, sent, then reconciled or put back.          *)
(***************************************************************************)
advance(b, c, to) ==
  /\ board[b].cards[c] # to /\ past.moves < MaxMoves
  /\ calls' = calls \cup {[Call("move", b, c) EXCEPT !.to = to, !.from = board[b].cards[c]]}
  /\ board' = [board EXCEPT ![b].cards[c] = to, ![b].error = FALSE]
  /\ past' = [Raced(Early(b, c), c) EXCEPT !.moves = @ + 1]
  /\ UNCHANGED <<cards, tags, chips, sheet>>

onAdvance(b, c) == \E to \in nextStage(board[b].cards[c], c) :
  (c \notin Tagged \/ board[b].cards[c] # "NFC_ENCODE") /\ advance(b, c, to)

(* A card dropped on a column; only a pet tag may land in the encode column.  *)
onDragEnd(b, c, to) ==
  to \in DropTargets /\ (to # "NFC_ENCODE" \/ c \in Tagged) /\ advance(b, c, to)

AdvancePrintJobStage(k) ==
  /\ k.kind = "move" /\ k.step = "sent"
  /\ cards' = [cards EXCEPT ![k.card] = k.to]
  /\ calls' = (Behind(Null, k.card) \ {k}) \cup {[k EXCEPT !.step = "committed"]}
  /\ UNCHANGED <<tags, chips, board, sheet, past>>

Announce(k) ==
  /\ k.step = "committed" /\ broadcast(k)
  /\ calls' = (calls \ {k}) \cup {[k EXCEPT !.step = "done"]}
  /\ UNCHANGED <<cards, tags, chips, sheet, past>>

advanced(k) ==
  /\ k.kind = "move" /\ k.step = "done"
  /\ board' = [board EXCEPT ![k.board].cards = mergeCard(@, k.card, k.to)]
  /\ calls' = Behind(k.board, k.card) \ {k}
  /\ UNCHANGED <<cards, tags, chips, sheet, past>>

revert(shown, k) == [shown EXCEPT ![k.card] = k.from]

(* Refused, or the answer was lost after the commit: the card is put back.    *)
advanceFailed(k) ==
  /\ k.kind = "move" /\ k.step \in {"sent", "done"}
  /\ board' = [board EXCEPT ![k.board].cards = revert(@, k), ![k.board].error = TRUE]
  /\ calls' = Behind(k.board, k.card) \ {k}
  /\ past' = Raced(k.step = "done", k.card)
  /\ UNCHANGED <<cards, tags, chips, sheet>>

(***************************************************************************)
(* The encode sheet.  Opening it prepares: the line's oldest tag, or a new    *)
(* one - read and insert are two statements.  The chip is written by the     *)
(* phone or by its helper app; then the uid confirms.  Both calls read the     *)
(* card in their transaction and push what they read after the commit: what a *)
(* prepare pushes can be older than a move that committed in between.         *)
(***************************************************************************)
TagsOf(c) == {t \in DOMAIN tags : tags[t].card = c}
Oldest(c) == CHOOSE t \in TagsOf(c) : \A o \in TagsOf(c) : t <= o
Preparing(c) == {k \in calls : k.kind = "prepare" /\ k.card = c /\ k.step = "minting"}

prepare(b, c) == calls' = calls \cup {Call("prepare", b, c)}
Unfolded(c) == [card |-> c, phase |-> "preparing", tag |-> Null, uid |-> Null, submitting |-> FALSE]

onEncode(b, c) ==
  /\ sheet[b] = Null /\ c \in Tagged /\ board[b].cards[c] = "NFC_ENCODE"
  /\ past.moves < MaxMoves
  /\ sheet' = [sheet EXCEPT ![b] = Unfolded(c)] /\ prepare(b, c)
  /\ past' = [Raced(Moving(c), c) EXCEPT !.moves = @ + 1]
  /\ UNCHANGED <<cards, tags, chips, board>>

retryPrepare(b) ==
  /\ sheet[b] # Null /\ sheet[b].phase = "prepareError" /\ past.moves < MaxMoves
  /\ sheet' = [sheet EXCEPT ![b].phase = "preparing"] /\ prepare(b, sheet[b].card)
  /\ past' = [Raced(Moving(sheet[b].card), sheet[b].card) EXCEPT !.moves = @ + 1]
  /\ UNCHANGED <<cards, tags, chips, board>>

(* The cancel button waits for a submit; Escape does not.                    *)
closeSheet(b) ==
  /\ sheet[b] # Null
  /\ sheet' = [sheet EXCEPT ![b] = Null]
  /\ UNCHANGED <<cards, tags, chips, board, calls, past>>

GetOrCreateForOrderItem(k) ==
  /\ k.kind = "prepare"
  /\ \/ /\ k.step = "sent" /\ TagsOf(k.card) # {}
        /\ calls' = (calls \ {k}) \cup {[k EXCEPT !.step = "committed", !.to = cards[k.card], !.result = Oldest(k.card)]}
        /\ UNCHANGED <<tags, past>>
     \/ /\ k.step = "sent" /\ TagsOf(k.card) = {}
        /\ calls' = (calls \ {k}) \cup {[k EXCEPT !.step = "minting"]}
        /\ past' = [past EXCEPT !.doubled = @ \cup (IF Preparing(k.card) = {} THEN {} ELSE {k.card})]
        /\ UNCHANGED tags
     \/ /\ k.step = "minting"
        /\ tags' = Append(tags, [card |-> k.card, status |-> "UNENCODED", uid |-> Null])
        /\ calls' = (calls \ {k}) \cup {[k EXCEPT !.step = "committed", !.to = cards[k.card], !.result = Len(tags) + 1]}
        /\ UNCHANGED past
  /\ UNCHANGED <<cards, chips, board, sheet>>

(* An answer of a sheet that was closed is dropped (alive).                   *)
Shows(b, c) == sheet[b] # Null /\ sheet[b].card = c
prepared(k) ==
  /\ k.kind = "prepare" /\ k.step = "done"
  /\ sheet' = IF Shows(k.board, k.card)
              THEN [sheet EXCEPT ![k.board].phase = "ready", ![k.board].tag = k.result] ELSE sheet
  /\ calls' = calls \ {k}
  /\ UNCHANGED <<cards, tags, chips, board, past>>

(* Lost on the way in or out; the server may still be minting.               *)
prepareFailed(k) ==
  /\ k.kind = "prepare" /\ k.step \in {"sent", "done"}
  /\ sheet' = IF Shows(k.board, k.card) THEN [sheet EXCEPT ![k.board].phase = "prepareError"] ELSE sheet
  /\ calls' = calls \ {k}
  /\ UNCHANGED <<cards, tags, chips, board, past>>

SheetReady(b) == sheet[b] # Null /\ sheet[b].phase = "ready"

(* The phone writes the chip and then reads its uid; a desk without NFC       *)
(* writes with a tool and types the uid in.                                 *)
writeChip(b, u) ==
  /\ SheetReady(b) /\ chips[u] = Null
  /\ chips' = [chips EXCEPT ![u] = sheet[b].tag]
  /\ sheet' = [sheet EXCEPT ![b].uid = u]
  /\ UNCHANGED <<cards, tags, board, calls, past>>

(* nfchelper://write: the helper app calls back with job, token and uid.      *)
nfcHelperWrite(b, u) ==
  /\ SheetReady(b) /\ chips[u] = Null
  /\ chips' = [chips EXCEPT ![u] = sheet[b].tag]
  /\ calls' = calls \cup {[Call("confirm", Null, sheet[b].card) EXCEPT !.uid = u]}
  /\ past' = Raced(Moving(sheet[b].card), sheet[b].card)
  /\ UNCHANGED <<cards, tags, board, sheet>>

confirm(b) ==
  /\ SheetReady(b) /\ ~sheet[b].submitting /\ sheet[b].uid # Null
  /\ sheet' = [sheet EXCEPT ![b].submitting = TRUE]
  /\ calls' = calls \cup {[Call("confirm", b, sheet[b].card) EXCEPT !.uid = sheet[b].uid]}
  /\ past' = Raced(Early(b, sheet[b].card), sheet[b].card)
  /\ UNCHANGED <<cards, tags, chips, board>>

(* One transaction: the tag is encoded, the card packed.                     *)
EncodePrintJobTag(k) ==
  /\ k.kind = "confirm" /\ k.step = "sent"
  /\ LET t == Oldest(k.card) IN tags' = [tags EXCEPT ![t].status = "ENCODED", ![t].uid = k.uid]
  /\ cards' = [cards EXCEPT ![k.card] = "PACKING"]
  /\ calls' = (Behind(Null, k.card) \ {k}) \cup {[k EXCEPT !.step = "committed", !.to = "PACKING"]}
  /\ UNCHANGED <<chips, board, sheet, past>>

\* Mutant: the answer closes the sheet and leaves the card to the stream.
EncodedUnmerged(k) ==
  /\ k.kind = "confirm" /\ k.step = "done"
  /\ sheet' = IF k.board = Null THEN sheet ELSE [sheet EXCEPT ![k.board] = Null]
  /\ calls' = Behind(k.board, k.card) \ {k}
  /\ UNCHANGED <<cards, tags, chips, board, past>>

(* onEncoded closes the sheet that is open, whichever card it is for.         *)
onEncoded(k) ==
  /\ k.kind = "confirm" /\ k.step = "done"
  /\ board' = IF k.board = Null THEN board
              ELSE [board EXCEPT ![k.board].cards = mergeCard(@, k.card, "PACKING")]
  /\ sheet' = IF k.board = Null THEN sheet ELSE [sheet EXCEPT ![k.board] = Null]
  /\ calls' = Behind(k.board, k.card) \ {k}
  /\ UNCHANGED <<cards, tags, chips, past>>

confirmFailed(k) ==
  /\ k.kind = "confirm" /\ k.step \in {"sent", "done"}
  /\ sheet' = IF k.board # Null /\ Shows(k.board, k.card)
              THEN [sheet EXCEPT ![k.board].submitting = FALSE] ELSE sheet
  /\ calls' = calls \ {k}
  /\ past' = Raced(k.step = "done", k.card)
  /\ UNCHANGED <<cards, tags, chips, board>>

(* The helper's answer sends the phone to the board; any page load is alike.  *)
reload(b) ==
  /\ ~\E k \in calls : k.board = b
  /\ board' = [board EXCEPT ![b] = Opened]
  /\ sheet' = [sheet EXCEPT ![b] = Null]
  /\ UNCHANGED <<cards, tags, chips, calls, past>>

StreamNext == \E b \in Boards : onopen(b) \/ subscribe(b) \/ onerror(b) \/ onStage(b) \/ tick(b) \/ reload(b)
PollNext == \E k \in calls : refetchPrintQueue(k) \/ polled(k)
MoveNext ==
  \/ \E b \in Boards, c \in Cards :
       onAdvance(b, c) \/ \E to \in DropTargets : onDragEnd(b, c, to)
  \/ \E k \in calls : AdvancePrintJobStage(k) \/ advanced(k) \/ advanceFailed(k)
SheetNext ==
  \/ \E b \in Boards :
       \/ \E c \in Cards : onEncode(b, c)
       \/ \E u \in Chips : writeChip(b, u) \/ nfcHelperWrite(b, u)
       \/ retryPrepare(b) \/ closeSheet(b) \/ confirm(b)
  \/ \E k \in calls :
       GetOrCreateForOrderItem(k) \/ prepared(k) \/ prepareFailed(k) \/ EncodePrintJobTag(k)
       \/ onEncoded(k) \/ confirmFailed(k)
PushNext == \E k \in calls : Announce(k)
PrintNext == StreamNext \/ PollNext \/ MoveNext \/ SheetNext \/ PushNext

PrintSpec == PrintInit /\ [][PrintNext]_printVars

-----------------------------------------------------------------------------
PrintTypeOK ==
  /\ \A c \in Cards : cards[c] \in DOMAIN groupByStage(cards) /\ (c \notin Tagged => cards[c] # "NFC_ENCODE")
  /\ \A b \in Boards : board[b].feed = Null \/ Len(board[b].feed) <= HubBuffer
  /\ \A k \in calls : k.card \in Cards \cup {Null} /\ k.board \in Boards \cup {Null}

(* A board left alone shows each card where it is: optimistic moves, put-back  *)
(* moves, pushed cards, polls and encodes of two people all settle, unless    *)
(* the board missed the card's last news (a full buffer drops it, and nothing  *)
(* reads the queue again while the stream lives), the answer of a change that  *)
(* was stored never came, or someone moved or opened the card before earlier   *)
(* news of it had reached them.                                             *)
BoardConverges ==
  \A b \in Boards, c \in Cards \ past.raced :
    c \notin board[b].missed /\ ~Moving(c) /\ ~Awaits(b, c) => board[b].cards[c] = cards[c]

(* The chip whose uid a tag records carries that tag's address: a customer     *)
(* who scans it reaches the tag that was encoded.  Two sheets that mint a tag  *)
(* for one line at once are where the code does not give this.               *)
ChipOpensItsTag ==
  \A t \in DOMAIN tags :
    tags[t].card \notin past.doubled /\ tags[t].uid # Null => chips[tags[t].uid] = t

PrintDeskSound == BoardConverges /\ ChipOpensItsTag
=============================================================================
