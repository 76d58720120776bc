---------------------------- MODULE AuctionHouse ----------------------------
(***************************************************************************)
(* One auction house (hearthstone-world/AuctionHouse.cpp): players sell,   *)
(* bid, buy out and cancel, the world thread marks what has expired and    *)
(* removes what is marked, and a restart loads the auctions table again.   *)
(*                                                                         *)
(* A handler runs on the thread of its player's map and takes no lock on   *)
(* the auction it has looked up, so handlers of players on different maps  *)
(* and the world thread interleave at every read and write of its fields.  *)
(* An auction is named by its item.  A handler that has put up, bid on or  *)
(* bought an auction still reads its Id for the answer to the player; the  *)
(* Auction may have been deleted by then.                                  *)
(***************************************************************************)
EXTENDS Integers, Sequences, FiniteSets, SequencesExt

CONSTANTS Auctions, Players, None,
          Seller,       \* the player who puts each auction up
          StartBid, Buyout, Deposit,
          Prices,       \* bound: the prices players bid
          Purse,        \* a player's coins at first
          CutPercent,   \* dbc->tax
          MaxRestarts   \* bound: restarts of the server

ASSUME AuctionAssumption ==
  /\ Seller \in [Auctions -> Players] /\ None \notin Players \union Auctions
  /\ IsFiniteSet(Auctions)
  /\ {StartBid, Buyout, Deposit, Purse, CutPercent, MaxRestarts} \subseteq Nat
  /\ Prices \subseteq Nat \ {0} /\ CutPercent <= 100

VARIABLES object,    \* the Auction: "none" before it is put up, "live", "freed"
          bidder,    \* HighestBidder (None: 0)
          bid,       \* HighestBid
          deleted,   \* Deleted
          reason,    \* DeletedReason
          expired,   \* UNIXTIME >= ExpiryTime
          removal,   \* removalList
          world,     \* where the world thread is in AuctionMgr::Update
          hand,      \* where each player's handler is
          coins,     \* PLAYER_FIELD_COINAGE
          stake,     \* what each player paid for an auction and was not mailed back
          earned,    \* gold mailed to the seller
          given,     \* to whom the item was mailed, in order
          row,       \* the row of the auctions table: absent, queued, written
          saved,     \* its bidder and bid once the queued statements are done
          restarts,
          spoilt     \* history: auctions met by a race or a restart that is said below
                     \* to spoil them

auction == <<object, bidder, bid, deleted, reason, expired>>
money == <<coins, stake, earned, given>>
table == <<row, saved>>
history == <<restarts, spoilt>>
vars == <<auction, removal, world, hand, money, table, history>>

Idle == [at |-> "idle", a |-> None, price |-> 0]
Rest == [at |-> "rest", a |-> None]
Set(f, x, v) == [f EXCEPT ![x] = v]
Goto(p, l) == hand' = [hand EXCEPT ![p].at = l]
ToReply(p) == hand' = Set(hand, p, [at |-> "reply", a |-> hand[p].a, price |-> 0])

(* The bids between their checks and their assignment; the removals        *)
(* between QueueDeletion's test and its push.                              *)
Bidding(a) == {p \in Players : hand[p].a = a /\ hand[p].at \in {"refund", "assign"}}
Queueing(a) == {p \in Players : hand[p].a = a /\ hand[p].at \in {"set", "push"}}
Listed(a) == {i \in 1 .. Len(removal) : removal[i] = a}
Spoil(a, when) == spoilt' = IF when THEN spoilt \union {a} ELSE spoilt

Init ==
  /\ object = [a \in Auctions |-> "none"]
  /\ bidder = [a \in Auctions |-> None] /\ bid = [a \in Auctions |-> 0]
  /\ deleted = [a \in Auctions |-> FALSE] /\ reason = [a \in Auctions |-> "none"]
  /\ expired = [a \in Auctions |-> FALSE]
  /\ removal = << >> /\ world = Rest
  /\ hand = [p \in Players |-> Idle]
  /\ coins = [p \in Players |-> Purse]
  /\ stake = [a \in Auctions |-> [p \in Players |-> 0]]
  /\ earned = [a \in Auctions |-> 0] /\ given = [a \in Auctions |-> << >>]
  /\ row = [a \in Auctions |-> "absent"]
  /\ saved = [a \in Auctions |-> [bidder |-> None, bid |-> 0]]
  /\ restarts = 0 /\ spoilt = {}

-----------------------------------------------------------------------------
(* Handlers. *)

(* HandleAuctionSellItem: the deposit and the item leave the player, the   *)
(* auction is in the map ...                                               *)
SellItem(p, a) ==
  /\ hand[p] = Idle /\ object[a] = "none" /\ Seller[a] = p
  /\ coins[p] >= Deposit
  /\ coins' = [coins EXCEPT ![p] = @ - Deposit]
  /\ object' = Set(object, a, "live") /\ bid' = Set(bid, a, StartBid)
  /\ hand' = Set(hand, p, [at |-> "save", a |-> a, price |-> 0])
  /\ UNCHANGED <<bidder, deleted, reason, expired, removal, world, stake, earned, given, table,
                 history>>

(* ... and SaveToDB queues its INSERT. *)
SaveToDB(p) ==
  /\ hand[p].at = "save"
  /\ LET a == hand[p].a IN
       /\ row' = Set(row, a, "queued")
       /\ saved' = Set(saved, a, [bidder |-> bidder[a], bid |-> bid[a]])
       /\ ToReply(p)
       /\ UNCHANGED <<auction, removal, world, money, history>>

(* Mutant: the coins are not counted. *)
MayBidPoor(p, a, price) == Seller[a] # p /\ (bid[a] <= price \/ price = Buyout)

(* HandleAuctionPlaceBid's conditions. *)
MayBid(p, a, price) ==
  /\ Seller[a] # p
  /\ bid[a] <= price \/ price = Buyout
  /\ coins[p] >= price

(* HandleAuctionPlaceBid: look up, test, pay.  A bid is spoilt when it     *)
(* meets another bid, an auction marked as expired without one, or one     *)
(* whose mails are being sent.                                             *)
PlaceBid(p, a, price) ==
  /\ hand[p] = Idle /\ object[a] = "live"
  /\ MayBid(p, a, price)
  /\ coins' = [coins EXCEPT ![p] = @ - price]
  /\ stake' = [stake EXCEPT ![a][p] = @ + price]
  /\ hand' = Set(hand, p, [at |-> "refund", a |-> a, price |-> price])
  /\ Spoil(a, \/ Bidding(a) # {}
              \/ deleted[a] /\ reason[a] = "expired"
              \/ world = [at |-> "erase", a |-> a])
  /\ UNCHANGED <<auction, removal, world, earned, given, table, restarts>>

(* The money of the last highest bidder is mailed back. *)
Refund(p) ==
  /\ hand[p].at = "refund"
  /\ LET a == hand[p].a IN
       /\ stake' = IF bidder[a] = None THEN stake
                   ELSE [stake EXCEPT ![a][bidder[a]] = @ - bid[a]]
       /\ Goto(p, "assign")
       /\ UNCHANGED <<auction, removal, world, coins, earned, given, table, history>>

(* The new bidder and bid; a buyout goes on to QueueDeletion, another bid  *)
(* to UpdateInDB, which finds its row when the INSERT was queued.          *)
Assign(p) ==
  /\ hand[p].at = "assign"
  /\ LET a == hand[p].a  price == hand[p].price IN
       /\ bidder' = Set(bidder, a, p) /\ bid' = Set(bid, a, price)
       /\ \/ price = Buyout /\ Goto(p, "test") /\ UNCHANGED saved
          \/ /\ price # Buyout /\ ToReply(p)
             /\ saved' = IF row[a] = "absent" THEN saved
                         ELSE Set(saved, a, [bidder |-> p, bid |-> price])
       /\ UNCHANGED <<object, deleted, reason, expired, removal, world, money, row, history>>

(* HandleCancelAuction, to its call of QueueDeletion. *)
Cancel(p, a) ==
  /\ hand[p] = Idle /\ object[a] = "live"
  /\ hand' = Set(hand, p, [at |-> "test", a |-> a, price |-> 0])
  /\ UNCHANGED <<auction, removal, world, money, table, history>>

(* Mutant: a marked auction is marked and queued again. *)
TestDeletedNot(p) ==
  /\ hand[p].at = "test" /\ Goto(p, "set")
  /\ Spoil(hand[p].a, ~deleted[hand[p].a] /\ Queueing(hand[p].a) # {})
  /\ UNCHANGED <<auction, removal, world, money, table, restarts>>

(* After QueueDeletion: a buyout is answered, with auct->Id; the answer to *)
(* a cancellation does not touch the auction.                              *)
AfterQueueDeletion(p) == IF hand[p].price = 0 THEN hand' = Set(hand, p, Idle) ELSE ToReply(p)

(* QueueDeletion returns when the auction is marked ... *)
TestDeleted(p) ==
  /\ hand[p].at = "test"
  /\ LET a == hand[p].a IN
       /\ IF deleted[a] THEN AfterQueueDeletion(p) ELSE Goto(p, "set")
       /\ Spoil(a, ~deleted[a] /\ Queueing(a) # {})
       /\ UNCHANGED <<auction, removal, world, money, table, restarts>>

(* ... else marks it ... *)
SetDeleted(p) ==
  /\ hand[p].at = "set"
  /\ LET a == hand[p].a IN
       /\ deleted' = Set(deleted, a, TRUE)
       /\ reason' = Set(reason, a, IF hand[p].price = 0 THEN "cancelled" ELSE "won")
       /\ Goto(p, "push")
       /\ UNCHANGED <<object, bidder, bid, expired, removal, world, money, table, history>>

(* ... and puts it on removalList, under removalLock. *)
Push(p) ==
  /\ hand[p].at = "push" /\ world.at \notin {"mail", "erase"}
  /\ removal' = Append(removal, hand[p].a)
  /\ AfterQueueDeletion(p)
  /\ UNCHANGED <<auction, world, money, table, history>>

(* The answer to the player: auct->Id is read, of an Auction that may be   *)
(* deleted already; what it then says changes nothing here.                *)
Reply(p) ==
  /\ hand[p].at = "reply"
  /\ hand' = Set(hand, p, Idle)
  /\ UNCHANGED <<auction, removal, world, money, table, history>>

-----------------------------------------------------------------------------
(* The world thread: AuctionMgr::Update, every 100 of its loops. *)

(* FL2UINT(cut_percent * bid). *)
Cut(b) == (b * CutPercent) \div 100

(* UpdateDeletionQueue takes removalLock for the whole list. *)
UpdateDeletionQueue ==
  /\ world = Rest
  /\ world' = [at |-> IF removal = << >> THEN "scan" ELSE "mail", a |-> None]
  /\ UNCHANGED <<auction, removal, hand, money, table, history>>

(* RemoveAuction's mails.  Expired: the item goes back.  Won: the item to  *)
(* the bidder, the bid less the cut with the deposit to the seller.        *)
MailExpired(a) ==
  /\ given' = [given EXCEPT ![a] = Append(@, Seller[a])]
  /\ UNCHANGED <<coins, stake, earned>>

MailWon(a) ==
  /\ given' = [given EXCEPT ![a] = Append(@, bidder[a])]
  /\ earned' = [earned EXCEPT ![a] = @ + bid[a] - Cut(bid[a]) + Deposit]
  /\ UNCHANGED <<coins, stake>>

(* Mutant: the bid is kept. *)
MailCancelledKept(a) ==
  /\ given' = [given EXCEPT ![a] = Append(@, Seller[a])]
  /\ UNCHANGED <<coins, stake, earned>>

(* Cancelled: a seller who is online and has it pays the cut; the item     *)
(* goes back, and the bid to the bidder.                                   *)
MailCancelled(a) ==
  /\ \/ coins[Seller[a]] >= Cut(bid[a]) /\ coins' = [coins EXCEPT ![Seller[a]] = @ - Cut(bid[a])]
     \/ UNCHANGED coins
  /\ given' = [given EXCEPT ![a] = Append(@, Seller[a])]
  /\ stake' = IF bidder[a] = None THEN stake ELSE [stake EXCEPT ![a][bidder[a]] = @ - bid[a]]
  /\ UNCHANGED earned

RemoveAuction ==
  /\ world.at = "mail"
  /\ LET a == Head(removal) IN
       /\ \/ reason[a] = "expired" /\ MailExpired(a)
          \/ reason[a] = "won" /\ MailWon(a)
          \/ reason[a] = "cancelled" /\ MailCancelled(a)
       /\ world' = [at |-> "erase", a |-> a]
       /\ Spoil(a, Bidding(a) # {})
       /\ UNCHANGED <<auction, removal, hand, table, restarts>>

(* ... then out of the map, DELETE on a connection of its own (a queued    *)
(* INSERT comes after it), and the Auction is deleted.  After the last one *)
(* the list is cleared and removalLock released.  A handler that still     *)
(* works on the auction spoils it, one that only answers does not.         *)
Erase ==
  /\ world.at = "erase"
  /\ LET a == world.a IN
       /\ object' = Set(object, a, "freed")
       /\ row' = IF row[a] = "written" THEN Set(row, a, "absent") ELSE row
       /\ Spoil(a, \E p \in Players : hand[p].a = a /\ hand[p].at # "reply")
  /\ removal' = Tail(removal)
  /\ world' = [at |-> IF Len(removal) = 1 THEN "scan" ELSE "mail", a |-> None]
  /\ UNCHANGED <<bidder, bid, deleted, reason, expired, hand, money, saved, restarts>>

(* Mutant: an auction that has a bid is left. *)
OverUnbid == {a \in Auctions : object[a] = "live" /\ expired[a] /\ bidder[a] = None}

(* The auctions whose time is over. *)
Over == {a \in Auctions : object[a] = "live" /\ expired[a]}

(* UpdateAuctions: they are marked, with or without an earlier mark, and   *)
(* put on removalList.                                                     *)
UpdateAuctions ==
  /\ world.at = "scan"
  /\ \E order \in SetToSeqs(Over) : removal' = removal \o order
  /\ deleted' = [a \in Auctions |-> deleted[a] \/ a \in Over]
  /\ reason' = [a \in Auctions |->
       IF a \notin Over THEN reason[a] ELSE IF bidder[a] = None THEN "expired" ELSE "won"]
  /\ spoilt' = spoilt \union {a \in Over :
       deleted[a] \/ Queueing(a) # {} \/ (bidder[a] = None /\ Bidding(a) # {})}
  /\ world' = Rest
  /\ UNCHANGED <<object, bidder, bid, expired, hand, money, table, restarts>>

(* UpdateAuctions is called in one of twelve updates only. *)
NotYet ==
  /\ world.at = "scan"
  /\ world' = Rest
  /\ UNCHANGED <<auction, removal, hand, money, table, history>>

-----------------------------------------------------------------------------
(* The executor thread of the database comes to the INSERT (see Database). *)
Insert(a) ==
  /\ row[a] = "queued"
  /\ row' = Set(row, a, "written")
  /\ UNCHANGED <<auction, removal, world, hand, money, saved, history>>

(* The auction's time is over. *)
Expire(a) ==
  /\ object[a] = "live" /\ ~expired[a]
  /\ expired' = Set(expired, a, TRUE)
  /\ UNCHANGED <<object, bidder, bid, deleted, reason, removal, world, hand, money, table,
                 history>>

(* An orderly restart between two handlers and two updates: the queued     *)
(* statements are done (Database.QueueAppliedToEnd), LoadAuctions reads    *)
(* the table.  Marks are not in it, nor is a buyout's bidder; a removed    *)
(* auction is, when its INSERT was still queued.                           *)
Restart ==
  /\ restarts < MaxRestarts /\ restarts' = restarts + 1
  /\ world = Rest /\ \A p \in Players : hand[p] = Idle
  /\ LET rows == {a \in Auctions : row[a] # "absent"} IN
       /\ row' = [a \in Auctions |-> IF a \in rows THEN "written" ELSE "absent"]
       /\ object' = [a \in Auctions |-> IF a \in rows THEN "live" ELSE object[a]]
       /\ bidder' = [a \in Auctions |-> IF a \in rows THEN saved[a].bidder ELSE bidder[a]]
       /\ bid' = [a \in Auctions |-> IF a \in rows THEN saved[a].bid ELSE bid[a]]
       /\ deleted' = [a \in Auctions |-> deleted[a] /\ a \notin rows]
       /\ reason' = [a \in Auctions |-> IF a \in rows THEN "none" ELSE reason[a]]
       /\ removal' = << >>
       /\ spoilt' = spoilt \union {a \in rows :
            object[a] = "freed" \/ saved[a] # [bidder |-> bidder[a], bid |-> bid[a]]}
  /\ UNCHANGED <<expired, world, hand, money, saved>>

Handler(p) ==
  SaveToDB(p) \/ Refund(p) \/ Assign(p) \/ TestDeleted(p) \/ SetDeleted(p) \/ Push(p)
  \/ Reply(p)
Update == UpdateDeletionQueue \/ RemoveAuction \/ Erase \/ NotYet

Next ==
  \/ \E p \in Players : Handler(p)
  \/ \E p \in Players, a \in Auctions :
       SellItem(p, a) \/ Cancel(p, a) \/ \E price \in Prices : PlaceBid(p, a, price)
  \/ Update \/ UpdateAuctions \/ Restart
  \/ \E a \in Auctions : Insert(a) \/ Expire(a)

(* The map threads and the world thread run, the twelfth update comes, and *)
(* time passes.                                                            *)
Fairness ==
  /\ \A p \in Players : WF_vars(Handler(p))
  /\ WF_vars(Update) /\ SF_vars(UpdateAuctions)
  /\ \A a \in Auctions : WF_vars(Expire(a))

Spec == Init /\ [][Next]_vars
FairSpec == Spec /\ Fairness

-----------------------------------------------------------------------------
(* Every component has its type. *)
TypeOK ==
  /\ object \in [Auctions -> {"none", "live", "freed"}]
  /\ bidder \in [Auctions -> Players \union {None}] /\ bid \in [Auctions -> Nat]
  /\ {deleted, expired} \subseteq [Auctions -> BOOLEAN]
  /\ reason \in [Auctions -> {"none", "expired", "won", "cancelled"}]
  /\ removal \in Seq(Auctions)
  /\ world \in [at : {"rest", "scan", "mail", "erase"}, a : Auctions \union {None}]
  /\ hand \in [Players -> [at : {"idle", "save", "refund", "assign", "test", "set", "push",
                                  "reply"},
                           a : Auctions \union {None}, price : Prices \union {0}]]
  /\ coins \in [Players -> Nat] /\ stake \in [Auctions -> [Players -> Int]]
  /\ earned \in [Auctions -> Nat] /\ given \in [Auctions -> Seq(Players)]
  /\ row \in [Auctions -> {"absent", "queued", "written"}]
  /\ saved \in [Auctions -> [bidder : Players \union {None}, bid : Nat]]
  /\ restarts \in 0 .. MaxRestarts /\ spoilt \subseteq Auctions

(* "Return the money to the last highest bidder": who is not the highest   *)
(* bidder has all his money back, and the highest bidder has paid his bid, *)
(* until the auction is won; then the winner has the item, has paid his    *)
(* bid, and that less the cut went to the seller.                          *)
Owed(a, p) == IF p = bidder[a] THEN bid[a] ELSE 0
Settled(a) == Len(given[a]) > 0
Won(a) == Settled(a) /\ reason[a] = "won"
BidsReturned(a) ==
  Bidding(a) = {} /\ (object[a] = "freed" \/ ~Settled(a)) =>
    /\ \A p \in Players : stake[a][p] = IF Settled(a) /\ ~Won(a) THEN 0 ELSE Owed(a, p)
    /\ Won(a) => Last(given[a]) = bidder[a] /\ earned[a] = bid[a] - Cut(bid[a]) + Deposit

(* So it is with every auction no race and no restart has spoilt: through  *)
(* bids on an auction that is cancelled or won already but not removed     *)
(* yet, buyouts below the highest bid, and equal bids.                     *)
BidderWholeUnspoilt == \A a \in Auctions \ spoilt : BidsReturned(a)

(* An unspoilt auction is removed once: its item is mailed once, it is on  *)
(* removalList or on its way to it once, and it is alive and marked while  *)
(* it is there.  (That nobody touches it once it is deleted is not so: an  *)
(* answer that comes late reads it, AuctionHouse.cpp:426.)                 *)
RemovedOnce ==
  \A a \in Auctions \ spoilt :
    /\ Len(given[a]) <= 1 /\ (object[a] = "freed" => Len(given[a]) = 1)
    /\ Cardinality(Listed(a)) + Cardinality(Queueing(a)) <= 1
    /\ Listed(a) # {} => object[a] = "live" /\ deleted[a]

(* Every unspoilt auction ends: it expires if nobody buys or cancels it,   *)
(* is marked, and removed by a later update, through restarts that forget  *)
(* the mark.                                                               *)
AuctionEnds == \A a \in Auctions : object[a] = "live" ~> object[a] = "freed" \/ a \in spoilt
=============================================================================
