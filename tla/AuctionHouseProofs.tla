------------------------- MODULE AuctionHouseProofs -------------------------
(***************************************************************************)
(* For every set of auctions and players and all prices: the auction house *)
(* keeps its types, and an auction that no race and no restart has spoilt  *)
(* is removed once and leaves every bidder with the money he is owed.      *)
(***************************************************************************)
EXTENDS AuctionHouse, FiniteSetTheorems, SequenceTheorems, TLAPS

Stages == {"idle", "save", "refund", "assign", "test", "set", "push", "reply"}
Hands == [at : Stages, a : Auctions \union {None}, price : Prices \union {0}]

(* A handler that has an auction in hand is not idle; a bid has a price,   *)
(* and a removal with a price (a buyout) has assigned its bidder.  So an   *)
(* auction that is won has one.                                            *)
HandInv ==
  /\ \A p \in Players :
       /\ hand[p].at = "idle" <=> hand[p].a = None
       /\ hand[p].at \in {"refund", "assign"} => hand[p].price # 0
       /\ hand[p].at \in {"test", "set", "push"} /\ hand[p].price # 0 => bidder[hand[p].a] # None
  /\ \A a \in Auctions : reason[a] = "won" => bidder[a] # None

(* The world thread removes the first auction of removalList. *)
WorldInv ==
  /\ world.at \in {"mail", "erase"} => removal # << >>
  /\ world.at = "erase" => world.a = Head(removal)
  /\ world.at # "erase" => world.a = None

(* What holds of every auction, spoilt ones too. *)
Base == TypeOK /\ HandInv /\ WorldInv

-----------------------------------------------------------------------------
(* The cut is no more than the bid. *)
LEMMA CutBound ==
  ASSUME NEW b \in Nat
  PROVE  Cut(b) \in Nat /\ Cut(b) <= b
<1>1. CutPercent \in Nat /\ CutPercent <= 100
  BY AuctionAssumption
<1>2. \A c \in Nat : c <= 100 => b * c \in Nat /\ b * c <= b * 100
  OBVIOUS
<1>3. b * CutPercent \in Nat /\ b * CutPercent <= b * 100
  BY <1>1, <1>2
<1>4. \A m \in Nat : m <= b * 100 => m \div 100 \in Nat /\ m \div 100 <= b
  OBVIOUS
<1> QED
  BY <1>3, <1>4 DEF Cut

(* What a handler's step makes of the hands: its own is the new one. *)
LEMMA SetHand ==
  ASSUME TypeOK, NEW p \in Players, NEW h \in Hands, hand' = Set(hand, p, h)
  PROVE  /\ hand' \in [Players -> Hands]
         /\ \A q \in Players : hand'[q] = IF q = p THEN h ELSE hand[q]
  BY DEF TypeOK, Set, Hands, Stages

(* A handler that moves on keeps its auction and its price. *)
LEMMA GotoHand ==
  ASSUME TypeOK, NEW p \in Players, NEW l \in Stages, Goto(p, l)
  PROVE  hand' = Set(hand, p, [at |-> l, a |-> hand[p].a, price |-> hand[p].price])
         /\ [at |-> l, a |-> hand[p].a, price |-> hand[p].price] \in Hands
<1>1. hand \in [Players -> Hands]
  BY DEF TypeOK, Hands, Stages
<1>2. hand[p] \in Hands
  BY <1>1
<1>3. [hand[p] EXCEPT !.at = l] = [at |-> l, a |-> hand[p].a, price |-> hand[p].price]
  BY <1>2 DEF Hands
<1>4. hand' = [hand EXCEPT ![p] = [hand[p] EXCEPT !.at = l]]
  BY DEF Goto
<1> QED
  BY <1>2, <1>3, <1>4 DEF Set, Hands

(* A handler at rest. *)
LEMMA IdleHand == Idle \in Hands /\ Idle.at = "idle" /\ Idle.a = None /\ Idle.price = 0
  BY DEF Idle, Hands, Stages

(* A handler that is through with the auction: it is idle or has its       *)
(* answer to send.                                                         *)
Ending(h, a) == h = Idle \/ (h.at = "reply" /\ h.a = a /\ h.price = 0)
LEMMA EndHand ==
  ASSUME TypeOK, NEW p \in Players, ToReply(p) \/ AfterQueueDeletion(p)
  PROVE  \E h \in Hands : hand' = Set(hand, p, h) /\ Ending(h, hand[p].a)
<1> DEFINE h == [at |-> "reply", a |-> hand[p].a, price |-> 0]
<1>1. hand[p] \in Hands
  BY DEF TypeOK, Hands, Stages
<1>2. h \in Hands /\ Ending(h, hand[p].a) /\ Idle \in Hands /\ Ending(Idle, hand[p].a)
  BY <1>1, IdleHand DEF Hands, Stages, Ending
<1>3. hand' = Set(hand, p, h) \/ hand' = Set(hand, p, Idle)
  BY DEF ToReply, AfterQueueDeletion
<1> QED
  BY <1>2, <1>3

(* Types, one variable at a time. *)
LEMMA Types ==
  TypeOK <=>
    /\ object \in [Auctions -> {"none", "live", "freed"}]
    /\ bidder \in [Auctions -> Players \union {None}]
    /\ bid \in [Auctions -> Nat]
    /\ deleted \in [Auctions -> BOOLEAN]
    /\ expired \in [Auctions -> BOOLEAN]
    /\ reason \in [Auctions -> {"none", "expired", "won", "cancelled"}]
    /\ removal \in Seq(Auctions)
    /\ world \in [at : {"rest", "scan", "mail", "erase"}, a : Auctions \union {None}]
    /\ hand \in [Players -> Hands]
    /\ coins \in [Players -> Nat]
    /\ stake \in [Auctions -> [Players -> Int]]
    /\ earned \in [Auctions -> Nat]
    /\ given \in [Auctions -> Seq(Players)]
    /\ row \in [Auctions -> {"absent", "queued", "written"}]
    /\ saved \in [Auctions -> [bidder : Players \union {None}, bid : Nat]]
    /\ restarts \in 0 .. MaxRestarts
    /\ spoilt \subseteq Auctions
  BY DEF TypeOK, Hands, Stages

(* An empty house is well typed. *)
LEMMA InitBase == Init => Base
<1> SUFFICES ASSUME Init PROVE Base
  OBVIOUS
<1>1. TypeOK
  <2>1. /\ coins \in [Players -> Nat] /\ earned \in [Auctions -> Nat] /\ bid \in [Auctions -> Nat]
        /\ restarts \in 0 .. MaxRestarts /\ stake \in [Auctions -> [Players -> Int]]
    BY AuctionAssumption DEF Init
  <2>2. /\ hand \in [Players -> Hands]
        /\ world \in [at : {"rest", "scan", "mail", "erase"}, a : Auctions \union {None}]
        /\ saved \in [Auctions -> [bidder : Players \union {None}, bid : Nat]]
    BY IdleHand DEF Init, Rest
  <2>3. /\ object \in [Auctions -> {"none", "live", "freed"}]
        /\ bidder \in [Auctions -> Players \union {None}]
        /\ deleted \in [Auctions -> BOOLEAN] /\ expired \in [Auctions -> BOOLEAN]
        /\ reason \in [Auctions -> {"none", "expired", "won", "cancelled"}]
        /\ removal \in Seq(Auctions) /\ given \in [Auctions -> Seq(Players)]
        /\ row \in [Auctions -> {"absent", "queued", "written"}] /\ spoilt \subseteq Auctions
    BY DEF Init
  <2> QED
    BY <2>1, <2>2, <2>3, Types
<1>2. HandInv
  BY IdleHand DEF Init, HandInv
<1>3. WorldInv
  BY DEF Init, WorldInv, Rest
<1> QED
  BY <1>1, <1>2, <1>3 DEF Base

(* Of a handler's step, HandInv asks only about the hand it leaves, when   *)
(* no bidder is forgotten and no auction is won without one.               *)
LEMMA HandStep ==
  ASSUME Base, NEW p \in Players, NEW h \in Hands, hand' = Set(hand, p, h),
         h.at = "idle" <=> h.a = None,
         h.at \in {"refund", "assign"} => h.price # 0,
         h.at \in {"test", "set", "push"} /\ h.price # 0 => bidder'[h.a] # None,
         \A a \in Auctions : bidder[a] # None => bidder'[a] # None,
         \A a \in Auctions : reason'[a] = "won" => bidder'[a] # None
  PROVE  hand' \in [Players -> Hands] /\ HandInv'
<1>1. /\ hand' \in [Players -> Hands]
      /\ \A q \in Players : hand'[q] = IF q = p THEN h ELSE hand[q]
  BY SetHand DEF Base
<1>2. \A q \in Players : hand[q].at # "idle" => hand[q].a \in Auctions
  <2>1. \A q \in Players : hand[q] \in Hands
    BY Types DEF Base
  <2> QED
    BY <2>1 DEF Base, HandInv, Hands
<1>3. ASSUME NEW q \in Players
      PROVE  /\ hand'[q].at = "idle" <=> hand'[q].a = None
             /\ hand'[q].at \in {"refund", "assign"} => hand'[q].price # 0
             /\ hand'[q].at \in {"test", "set", "push"} /\ hand'[q].price # 0
                  => bidder'[hand'[q].a] # None
  BY <1>1, <1>2 DEF Base, HandInv
<1> QED
  BY <1>1, <1>3 DEF HandInv

(* A hand that is not idle holds an auction, at a price. *)
LEMMA Held ==
  ASSUME Base, NEW p \in Players
  PROVE  /\ hand[p] \in Hands /\ hand[p].at \in Stages
         /\ hand[p].at # "idle" => hand[p].a \in Auctions
         /\ hand[p].price \in Nat
         /\ hand[p].at = "idle" <=> hand[p].a = None
<1>1. hand[p] \in Hands
  BY Types DEF Base
<1>2. \A x \in Prices \union {0} : x \in Nat
  BY AuctionAssumption
<1>3. /\ hand[p].at \in Stages /\ hand[p].a \in Auctions \union {None}
      /\ hand[p].price \in Prices \union {0}
  BY <1>1 DEF Hands
<1>4. hand[p].at = "idle" <=> hand[p].a = None
  BY DEF Base, HandInv
<1>5. hand[p].at # "idle" => hand[p].a \in Auctions
  BY <1>3, <1>4
<1>6. hand[p].price \in Nat
  BY <1>2, <1>3
<1> QED
  BY <1>1, <1>3, <1>4, <1>5, <1>6

(* A step that leaves the list and the world thread alone. *)
LEMMA SameWorld ==
  ASSUME Base, UNCHANGED <<removal, world>>
  PROVE  WorldInv'
  BY DEF Base, WorldInv

(* HandleAuctionSellItem. *)
LEMMA SellItemBase ==
  ASSUME Base, NEW p \in Players, NEW a \in Auctions, SellItem(p, a)
  PROVE  Base'
<1> DEFINE h == [at |-> "save", a |-> a, price |-> 0]
<1>1. h \in Hands /\ h.at = "save" /\ h.a = a /\ a # None
  BY AuctionAssumption DEF Hands, Stages
<1> HIDE DEF h
<1>2. hand' = Set(hand, p, h)
  BY DEF SellItem, h
<1>3. UNCHANGED <<bidder, deleted, reason, expired, removal, world, stake, earned, given, row,
                  saved, restarts, spoilt>>
  BY DEF SellItem, table, history
<1>4. hand' \in [Players -> Hands] /\ HandInv'
  BY <1>1, <1>2, <1>3, HandStep DEF Base, HandInv
<1>5. /\ coins' \in [Players -> Nat]
      /\ object' \in [Auctions -> {"none", "live", "freed"}]
      /\ bid' \in [Auctions -> Nat]
  <2>1. /\ coins[p] \in Nat /\ coins[p] >= Deposit /\ Deposit \in Nat /\ StartBid \in Nat
        /\ coins \in [Players -> Nat] /\ object \in [Auctions -> {"none", "live", "freed"}]
        /\ bid \in [Auctions -> Nat]
    BY AuctionAssumption, Types DEF Base, SellItem
  <2>2. coins[p] - Deposit \in Nat
    BY <2>1
  <2> QED
    BY <2>1, <2>2 DEF SellItem, Set
<1>6. TypeOK'
  BY <1>3, <1>4, <1>5, Types DEF Base, TypeOK, Hands, Stages
<1> QED
  BY <1>3, <1>4, <1>6, SameWorld DEF Base

(* A handler that ends its work on an auction, its bidders as they were. *)
LEMMA EndStep ==
  ASSUME Base, NEW p \in Players, hand[p].a \in Auctions, ToReply(p) \/ AfterQueueDeletion(p),
         UNCHANGED <<bidder, reason>>
  PROVE  hand' \in [Players -> Hands] /\ HandInv'
<1>1. PICK h \in Hands : hand' = Set(hand, p, h) /\ Ending(h, hand[p].a)
  BY EndHand DEF Base
<1>2. /\ h.at = "idle" <=> h.a = None
      /\ h.at \in {"idle", "reply"}
  BY <1>1, IdleHand, AuctionAssumption DEF Ending
<1> QED
  BY <1>1, <1>2, HandStep DEF Base, HandInv

(* SaveToDB after it. *)
LEMMA SaveToDBBase ==
  ASSUME Base, NEW p \in Players, SaveToDB(p)
  PROVE  Base'
<1> DEFINE a == hand[p].a
<1>1. a \in Auctions
  BY Held DEF SaveToDB
<1> HIDE DEF a
<1>2. /\ ToReply(p) /\ row' = Set(row, a, "queued")
      /\ saved' = Set(saved, a, [bidder |-> bidder[a], bid |-> bid[a]])
      /\ UNCHANGED <<object, bidder, bid, deleted, reason, expired, removal, world, coins, stake,
                     earned, given, restarts, spoilt>>
  BY DEF SaveToDB, auction, money, history, a
<1>3. hand' \in [Players -> Hands] /\ HandInv'
  BY <1>1, <1>2, EndStep DEF a
<1>4. /\ row' \in [Auctions -> {"absent", "queued", "written"}]
      /\ saved' \in [Auctions -> [bidder : Players \union {None}, bid : Nat]]
  BY <1>1, <1>2, Types DEF Base, Set
<1>5. TypeOK'
  BY <1>2, <1>3, <1>4, Types DEF Base, TypeOK, Hands, Stages
<1> QED
  BY <1>2, <1>3, <1>5, SameWorld DEF Base

(* HandleAuctionPlaceBid: the player has the coins he pays. *)
LEMMA PlaceBidBase ==
  ASSUME Base, NEW p \in Players, NEW a \in Auctions, NEW price \in Prices,
         PlaceBid(p, a, price)
  PROVE  Base'
<1> DEFINE h == [at |-> "refund", a |-> a, price |-> price]
<1>1. h \in Hands /\ h.at = "refund" /\ h.a = a /\ h.price = price /\ a # None /\ price # 0
  BY AuctionAssumption DEF Hands, Stages
<1> HIDE DEF h
<1>2. hand' = Set(hand, p, h)
  BY DEF PlaceBid, h
<1>3. /\ UNCHANGED <<object, bidder, bid, deleted, reason, expired, removal, world, earned, given,
                     row, saved, restarts>>
      /\ spoilt' = spoilt \/ spoilt' = spoilt \union {a}
  BY DEF PlaceBid, auction, table, Spoil
<1>4. hand' \in [Players -> Hands] /\ HandInv'
  BY <1>1, <1>2, <1>3, HandStep DEF Base, HandInv
<1>5. /\ coins' \in [Players -> Nat]
      /\ stake' \in [Auctions -> [Players -> Int]]
  <2>1. /\ coins[p] \in Nat /\ coins[p] >= price /\ price \in Nat
        /\ coins \in [Players -> Nat] /\ stake \in [Auctions -> [Players -> Int]]
    BY AuctionAssumption, Types DEF Base, PlaceBid, MayBid
  <2>a. stake[a] \in [Players -> Int] /\ stake[a][p] \in Int
    BY <2>1
  <2>2. coins[p] - price \in Nat /\ stake[a][p] + price \in Int
    BY <2>1, <2>a
  <2>3. coins' = [coins EXCEPT ![p] = coins[p] - price]
    BY DEF PlaceBid
  <2>4. stake' = [stake EXCEPT ![a] = [stake[a] EXCEPT ![p] = stake[a][p] + price]]
    BY DEF PlaceBid
  <2> QED
    BY <2>1, <2>2, <2>3, <2>4, <2>a
<1>6. TypeOK'
  BY <1>3, <1>4, <1>5, Types DEF Base, TypeOK, Hands, Stages
<1> QED
  BY <1>3, <1>4, <1>6, SameWorld DEF Base

(* Paying a bidder back keeps the stakes numbers. *)
LEMMA Repaid ==
  ASSUME Base, NEW a \in Auctions,
         stake' = IF bidder[a] = None THEN stake
                  ELSE [stake EXCEPT ![a][bidder[a]] = @ - bid[a]]
  PROVE  /\ stake' \in [Auctions -> [Players -> Int]]
         /\ \A b \in Auctions : b # a => stake'[b] = stake[b]
         /\ \A q \in Players : stake'[a][q] = stake[a][q] - Owed(a, q)
<1>1. /\ stake \in [Auctions -> [Players -> Int]] /\ stake[a] \in [Players -> Int]
      /\ bidder[a] \in Players \union {None} /\ bid[a] \in Nat /\ None \notin Players
  BY AuctionAssumption, Types DEF Base
<1>2. CASE bidder[a] = None
  BY <1>1, <1>2 DEF Owed
<1>3. CASE bidder[a] # None
  <2> DEFINE s == [stake[a] EXCEPT ![bidder[a]] = stake[a][bidder[a]] - bid[a]]
  <2>1. stake[a][bidder[a]] \in Int
    BY <1>1, <1>3
  <2>2. stake[a][bidder[a]] - bid[a] \in Int
    BY <1>1, <2>1
  <2>3. s \in [Players -> Int]
    BY <1>1, <2>2
  <2>4. \A q \in Players : s[q] = stake[a][q] - Owed(a, q)
    BY <1>1, <1>3 DEF Owed
  <2>5. stake' = [stake EXCEPT ![a] = s]
    BY <1>3
  <2> HIDE DEF s
  <2> QED
    BY <1>1, <2>3, <2>4, <2>5
<1> QED
  BY <1>2, <1>3

(* The mail to the last highest bidder. *)
LEMMA RefundBase ==
  ASSUME Base, NEW p \in Players, Refund(p)
  PROVE  Base'
<1> DEFINE h == [at |-> "assign", a |-> hand[p].a, price |-> hand[p].price]
<1>1. hand' = Set(hand, p, h) /\ h \in Hands
  BY GotoHand DEF Refund, Base, Stages
<1>2. hand[p].a \in Auctions /\ hand[p].price # 0 /\ hand[p].a # None
  BY Held, AuctionAssumption DEF Refund, Base, HandInv
<1>3. h.at = "assign" /\ h.a = hand[p].a /\ h.price = hand[p].price
  OBVIOUS
<1> HIDE DEF h
<1>4. UNCHANGED <<object, bidder, bid, deleted, reason, expired, removal, world, coins, earned,
                  given, row, saved, restarts, spoilt>>
  BY DEF Refund, auction, table, history
<1>5. hand' \in [Players -> Hands] /\ HandInv'
  BY <1>1, <1>2, <1>3, <1>4, HandStep DEF Base, HandInv
<1>6. stake' \in [Auctions -> [Players -> Int]]
  BY <1>2, Repaid DEF Refund
<1>7. TypeOK'
  BY <1>4, <1>5, <1>6, Types DEF Base, TypeOK, Hands, Stages
<1> QED
  BY <1>4, <1>5, <1>7, SameWorld DEF Base

(* The new bidder: a buyout goes on with a bidder assigned. *)
LEMMA AssignBase ==
  ASSUME Base, NEW p \in Players, Assign(p)
  PROVE  Base'
<1> DEFINE a == hand[p].a
           price == hand[p].price
<1>1. a \in Auctions /\ price # 0 /\ a # None /\ price \in Nat /\ p # None
  BY Held, AuctionAssumption DEF Assign, Base, HandInv
<1>2. /\ bidder' = Set(bidder, a, p) /\ bid' = Set(bid, a, price)
      /\ UNCHANGED <<object, deleted, reason, expired, removal, world, coins, stake, earned, given,
                     row, restarts, spoilt>>
  BY DEF Assign, money, history
<1>3. \/ Goto(p, "test") /\ saved' = saved
      \/ /\ ToReply(p)
         /\ saved' = saved \/ saved' = Set(saved, a, [bidder |-> p, bid |-> price])
  BY DEF Assign
<1>4. /\ bidder' \in [Auctions -> Players \union {None}] /\ bid' \in [Auctions -> Nat]
      /\ bidder'[a] = p /\ \A b \in Auctions : b # a => bidder'[b] = bidder[b]
  BY <1>1, <1>2, Types DEF Base, Set
<1>5. saved' \in [Auctions -> [bidder : Players \union {None}, bid : Nat]]
  <2>1. saved \in [Auctions -> [bidder : Players \union {None}, bid : Nat]]
    BY Types DEF Base
  <2>2. [bidder |-> p, bid |-> price] \in [bidder : Players \union {None}, bid : Nat]
    BY <1>1
  <2>3. saved' = saved \/ saved' = Set(saved, a, [bidder |-> p, bid |-> price])
    BY <1>3
  <2> QED
    BY <2>1, <2>2, <2>3, <1>1 DEF Set
<1>6. PICK h \in Hands : /\ hand' = Set(hand, p, h)
                         /\ \/ Ending(h, a)
                            \/ h.at = "test" /\ h.a = a
  BY <1>3, GotoHand, EndHand DEF Base, Stages
<1>7. hand' \in [Players -> Hands] /\ HandInv'
  <2> HIDE DEF a, price
  <2>1. /\ h.at = "idle" <=> h.a = None
        /\ h.at \in {"idle", "reply", "test"}
        /\ h.at = "test" => h.a = a
    BY <1>1, <1>6, IdleHand DEF Ending
  <2>2. \A b \in Auctions : bidder[b] # None => bidder'[b] # None
    BY <1>1, <1>4
  <2>3. \A b \in Auctions : reason'[b] = "won" => bidder'[b] # None
    BY <1>2, <2>2 DEF Base, HandInv
  <2>4. bidder'[a] # None
    BY <1>1, <1>4
  <2> QED
    BY <1>6, <2>1, <2>2, <2>3, <2>4, HandStep
<1>8. TypeOK'
  BY <1>2, <1>4, <1>5, <1>7, Types DEF Base, TypeOK, Hands, Stages
<1> QED
  BY <1>2, <1>7, <1>8, SameWorld DEF Base

(* HandleCancelAuction. *)
LEMMA CancelBase ==
  ASSUME Base, NEW p \in Players, NEW a \in Auctions, Cancel(p, a)
  PROVE  Base'
<1> DEFINE h == [at |-> "test", a |-> a, price |-> 0]
<1>1. h \in Hands /\ h.at = "test" /\ h.a = a /\ h.price = 0 /\ a # None
  BY AuctionAssumption DEF Hands, Stages
<1> HIDE DEF h
<1>2. hand' = Set(hand, p, h)
  BY DEF Cancel, h
<1>3. UNCHANGED <<object, bidder, bid, deleted, reason, expired, removal, world, coins, stake,
                  earned, given, row, saved, restarts, spoilt>>
  BY DEF Cancel, auction, money, table, history
<1>4. hand' \in [Players -> Hands] /\ HandInv'
  BY <1>1, <1>2, <1>3, HandStep DEF Base, HandInv
<1>5. TypeOK'
  BY <1>3, <1>4, Types DEF Base, TypeOK, Hands, Stages
<1> QED
  BY <1>3, <1>4, <1>5, SameWorld DEF Base

(* QueueDeletion's test. *)
LEMMA TestDeletedBase ==
  ASSUME Base, NEW p \in Players, TestDeleted(p)
  PROVE  Base'
<1> DEFINE a == hand[p].a
<1>1. /\ a \in Auctions /\ a # None
      /\ hand[p].price # 0 => bidder[a] # None
  BY Held, AuctionAssumption DEF TestDeleted, Base, HandInv
<1>2. /\ UNCHANGED <<object, bidder, bid, deleted, reason, expired, removal, world, coins, stake,
                     earned, given, row, saved, restarts>>
      /\ spoilt' = spoilt \/ spoilt' = spoilt \union {a}
  BY DEF TestDeleted, auction, money, table, Spoil
<1>3. Goto(p, "set") \/ AfterQueueDeletion(p)
  BY DEF TestDeleted
<1>4. PICK h \in Hands : /\ hand' = Set(hand, p, h)
                         /\ \/ Ending(h, a)
                            \/ h.at = "set" /\ h.a = a /\ h.price = hand[p].price
  BY <1>3, GotoHand, EndHand DEF Base, Stages
<1>5. hand' \in [Players -> Hands] /\ HandInv'
  <2> HIDE DEF a
  <2>1. /\ h.at = "idle" <=> h.a = None
        /\ h.at \in {"idle", "reply", "set"}
        /\ h.at = "set" => h.a = a /\ h.price = hand[p].price
    BY <1>1, <1>4, IdleHand DEF Ending
  <2> QED
    BY <1>1, <1>2, <1>4, <2>1, HandStep DEF Base, HandInv
<1>6. TypeOK'
  BY <1>1, <1>2, <1>5, Types DEF Base, TypeOK, Hands, Stages
<1> QED
  BY <1>2, <1>5, <1>6, SameWorld DEF Base

(* Its mark: a buyout marks the auction as won, and it has a bidder. *)
LEMMA SetDeletedBase ==
  ASSUME Base, NEW p \in Players, SetDeleted(p)
  PROVE  Base'
<1> DEFINE a == hand[p].a
           h == [at |-> "push", a |-> a, price |-> hand[p].price]
           r == IF hand[p].price = 0 THEN "cancelled" ELSE "won"
<1>1. /\ a \in Auctions /\ a # None
      /\ hand[p].price # 0 => bidder[a] # None
  BY Held, AuctionAssumption DEF SetDeleted, Base, HandInv
<1>2. /\ UNCHANGED <<object, bidder, bid, expired, removal, world, coins, stake,
                     earned, given, row, saved, restarts, spoilt>>
      /\ deleted' = Set(deleted, a, TRUE) /\ reason' = Set(reason, a, r)
  BY DEF SetDeleted, money, table, history
<1>3. hand' = Set(hand, p, h) /\ h \in Hands
  BY GotoHand DEF Base, Stages, SetDeleted
<1>4. h.at = "push" /\ h.a = a /\ h.price = hand[p].price
  OBVIOUS
<1>5. deleted' \in [Auctions -> BOOLEAN]
  BY <1>1, <1>2, Types, Zenon DEF Base, Set
<1>6. /\ reason' \in [Auctions -> {"none", "expired", "won", "cancelled"}]
      /\ \A b \in Auctions : reason'[b] = IF b = a THEN r ELSE reason[b]
  BY <1>1, <1>2, Types DEF Base, Set
<1>7. \A b \in Auctions : reason'[b] = "won" => bidder'[b] # None
  BY <1>1, <1>2, <1>6 DEF Base, HandInv
<1> HIDE DEF a, h, r
<1>8. hand' \in [Players -> Hands] /\ HandInv'
  BY <1>1, <1>2, <1>3, <1>4, <1>7, HandStep
<1>9. TypeOK'
  <2>1. {deleted', expired'} \subseteq [Auctions -> BOOLEAN]
    BY <1>2, <1>5, Types DEF Base
  <2>2. UNCHANGED <<object, bidder, bid, removal, world, coins, stake, earned, given, row, saved,
                    restarts, spoilt>>
    BY <1>2
  <2> QED
    BY <1>6, <1>8, <2>1, <2>2 DEF Base, TypeOK, Hands, Stages
<1> QED
  BY <1>2, <1>8, <1>9, SameWorld DEF Base

(* Its push, which waits for removalLock. *)
LEMMA PushBase ==
  ASSUME Base, NEW p \in Players, Push(p)
  PROVE  Base'
<1>1. hand[p].a \in Auctions
  BY Held DEF Push
<1>2. /\ AfterQueueDeletion(p) /\ removal' = Append(removal, hand[p].a)
      /\ world.at \notin {"mail", "erase"}
      /\ UNCHANGED <<object, bidder, bid, deleted, reason, expired, world, coins, stake,
                     earned, given, row, saved, restarts, spoilt>>
  BY DEF Push, auction, money, table, history
<1>3. hand' \in [Players -> Hands] /\ HandInv'
  BY <1>1, <1>2, EndStep
<1>4. removal' \in Seq(Auctions)
  BY <1>1, <1>2, Types DEF Base
<1>5. WorldInv'
  BY <1>2 DEF Base, WorldInv
<1>6. TypeOK'
  BY <1>2, <1>3, <1>4, Types DEF Base, TypeOK, Hands, Stages
<1> QED
  BY <1>3, <1>5, <1>6 DEF Base

(* The answer. *)
LEMMA ReplyBase ==
  ASSUME Base, NEW p \in Players, Reply(p)
  PROVE  Base'
<1>1. /\ hand' = Set(hand, p, Idle)
      /\ UNCHANGED <<object, bidder, bid, deleted, reason, expired, removal, world, coins, stake,
                     earned, given, row, saved, restarts, spoilt>>
  BY DEF Reply, auction, money, table, history
<1>2. hand' \in [Players -> Hands] /\ HandInv'
  BY <1>1, IdleHand, HandStep DEF Base, HandInv
<1>3. TypeOK'
  BY <1>1, <1>2, Types DEF Base, TypeOK, Hands, Stages
<1> QED
  BY <1>1, <1>2, <1>3, SameWorld DEF Base

-----------------------------------------------------------------------------
(* The world thread's steps. *)
LEMMA UpdateDeletionQueueBase ==
  ASSUME Base, UpdateDeletionQueue \/ NotYet
  PROVE  Base'
<1>1. UNCHANGED <<object, bidder, bid, deleted, reason, expired, removal, hand, coins, stake,
                  earned, given, row, saved, restarts, spoilt>>
  BY DEF UpdateDeletionQueue, NotYet, auction, money, table, history
<1>2. \E l \in {"rest", "scan", "mail"} : /\ world' = [at |-> l, a |-> None]
                                          /\ l = "mail" => removal # << >>
  BY DEF UpdateDeletionQueue, NotYet, Rest
<1>3. /\ world' \in [at : {"rest", "scan", "mail", "erase"}, a : Auctions \union {None}]
      /\ world'.at # "erase" /\ world'.a = None /\ (world'.at = "mail" => removal # << >>)
  BY <1>2
<1>4. WorldInv'
  BY <1>1, <1>3 DEF Base, WorldInv
<1>5. HandInv'
  BY <1>1 DEF Base, HandInv
<1>6. TypeOK'
  BY <1>1, <1>3 DEF Base, TypeOK
<1> QED
  BY <1>4, <1>5, <1>6 DEF Base

(* The three kinds of mails: what each makes of the auction's books. *)
LEMMA MailsBooks ==
  ASSUME Base, NEW a \in Auctions,
         \/ reason[a] = "expired" /\ MailExpired(a)
         \/ reason[a] = "won" /\ MailWon(a)
         \/ reason[a] = "cancelled" /\ MailCancelled(a)
  PROVE  /\ coins' \in [Players -> Nat]
         /\ stake' \in [Auctions -> [Players -> Int]]
         /\ earned' \in [Auctions -> Nat]
         /\ given' \in [Auctions -> Seq(Players)]
         /\ \A b \in Auctions : b # a => /\ stake'[b] = stake[b] /\ earned'[b] = earned[b]
                                         /\ given'[b] = given[b]
         /\ reason[a] = "cancelled" =>
              \A q \in Players : stake'[a][q] = stake[a][q] - Owed(a, q)
         /\ reason[a] # "cancelled" => stake' = stake
         /\ reason[a] = "won" => /\ given'[a] = Append(given[a], bidder[a])
                                 /\ earned'[a] = earned[a] + bid[a] - Cut(bid[a]) + Deposit
         /\ reason[a] # "won" => given'[a] = Append(given[a], Seller[a])
<1>1. /\ coins \in [Players -> Nat] /\ stake \in [Auctions -> [Players -> Int]]
      /\ earned \in [Auctions -> Nat] /\ given \in [Auctions -> Seq(Players)]
      /\ given[a] \in Seq(Players) /\ Seller[a] \in Players /\ bid[a] \in Nat
      /\ earned[a] \in Nat /\ Deposit \in Nat /\ bidder[a] \in Players \union {None}
  BY AuctionAssumption, Types DEF Base
<1>2. Cut(bid[a]) \in Nat /\ Cut(bid[a]) <= bid[a]
  BY <1>1, CutBound
<1>3. \A x \in Players : Append(given[a], x) \in Seq(Players)
  BY <1>1
<1>4. CASE reason[a] = "expired"
  <2>1. /\ given' = [given EXCEPT ![a] = Append(given[a], Seller[a])]
        /\ UNCHANGED <<coins, stake, earned>>
    BY <1>4 DEF MailExpired
  <2> QED
    BY <1>1, <1>3, <1>4, <2>1
<1>5. CASE reason[a] = "won"
  <2> DEFINE e == earned[a] + bid[a] - Cut(bid[a]) + Deposit
  <2>1. /\ given' = [given EXCEPT ![a] = Append(given[a], bidder[a])]
        /\ earned' = [earned EXCEPT ![a] = e]
        /\ UNCHANGED <<coins, stake>>
    BY <1>5 DEF MailWon
  <2>2. bidder[a] \in Players
    BY <1>1, <1>5 DEF Base, HandInv
  <2>3. e \in Nat
    BY <1>1, <1>2
  <2>4. given' \in [Auctions -> Seq(Players)] /\ given'[a] = Append(given[a], bidder[a])
        /\ \A b \in Auctions : b # a => given'[b] = given[b]
    BY <1>1, <1>3, <2>1, <2>2
  <2>5. earned' \in [Auctions -> Nat] /\ earned'[a] = e
        /\ \A b \in Auctions : b # a => earned'[b] = earned[b]
    <3> HIDE DEF e
    <3> QED
      BY <1>1, <2>1, <2>3
  <2> QED
    BY <1>1, <1>5, <2>1, <2>4, <2>5
<1>6. CASE reason[a] = "cancelled"
  <2>1. /\ given' = [given EXCEPT ![a] = Append(given[a], Seller[a])] /\ UNCHANGED earned
        /\ stake' = IF bidder[a] = None THEN stake
                    ELSE [stake EXCEPT ![a][bidder[a]] = @ - bid[a]]
        /\ \/ /\ coins[Seller[a]] >= Cut(bid[a])
              /\ coins' = [coins EXCEPT ![Seller[a]] = coins[Seller[a]] - Cut(bid[a])]
           \/ UNCHANGED coins
    BY <1>6 DEF MailCancelled
  <2>2. /\ stake' \in [Auctions -> [Players -> Int]]
        /\ \A b \in Auctions : b # a => stake'[b] = stake[b]
        /\ \A q \in Players : stake'[a][q] = stake[a][q] - Owed(a, q)
    BY <2>1, Repaid
  <2>3. coins' \in [Players -> Nat]
    <3>1. coins[Seller[a]] >= Cut(bid[a]) => coins[Seller[a]] - Cut(bid[a]) \in Nat
      BY <1>1, <1>2
    <3> QED
      BY <1>1, <2>1, <3>1
  <2>4. /\ given' \in [Auctions -> Seq(Players)] /\ given'[a] = Append(given[a], Seller[a])
        /\ \A b \in Auctions : b # a => given'[b] = given[b]
    BY <1>1, <1>3, <2>1
  <2> QED
    BY <1>1, <1>6, <2>1, <2>2, <2>3, <2>4
<1> QED
  BY <1>4, <1>5, <1>6

(* The world thread's list has a first auction while it is removed. *)
LEMMA FirstListed ==
  ASSUME Base, world.at \in {"mail", "erase"}
  PROVE  /\ Head(removal) \in Auctions /\ Len(removal) > 0 /\ removal[1] = Head(removal)
         /\ Len(removal) \in Nat /\ Tail(removal) \in Seq(Auctions)
         /\ Len(Tail(removal)) = Len(removal) - 1
         /\ \A i \in 1 .. Len(removal) - 1 : Tail(removal)[i] = removal[i + 1]
<1>1. removal \in Seq(Auctions) /\ removal # << >>
  BY Types DEF Base, WorldInv
<1> QED
  BY <1>1, HeadTailProperties

(* RemoveAuction: the first auction of the list is mailed. *)
LEMMA RemoveAuctionBase ==
  ASSUME Base, RemoveAuction
  PROVE  Base'
<1> DEFINE a == Head(removal)
<1>1. a \in Auctions /\ removal # << >>
  BY FirstListed DEF RemoveAuction, Base, WorldInv
<1>2. /\ UNCHANGED <<object, bidder, bid, deleted, reason, expired, removal, hand, row, saved,
                     restarts>>
      /\ world' = [at |-> "erase", a |-> a]
      /\ spoilt' = spoilt \/ spoilt' = spoilt \union {a}
      /\ \/ reason[a] = "expired" /\ MailExpired(a)
         \/ reason[a] = "won" /\ MailWon(a)
         \/ reason[a] = "cancelled" /\ MailCancelled(a)
  BY DEF RemoveAuction, auction, table, Spoil
<1>3. /\ coins' \in [Players -> Nat] /\ stake' \in [Auctions -> [Players -> Int]]
      /\ earned' \in [Auctions -> Nat] /\ given' \in [Auctions -> Seq(Players)]
  BY <1>1, <1>2, MailsBooks
<1>4. WorldInv'
  BY <1>1, <1>2 DEF WorldInv
<1>5. HandInv'
  BY <1>2 DEF Base, HandInv
<1> HIDE DEF a
<1>6. world' \in [at : {"rest", "scan", "mail", "erase"}, a : Auctions \union {None}]
  BY <1>1, <1>2
<1>7. TypeOK'
  BY <1>1, <1>2, <1>3, <1>6 DEF Base, TypeOK
<1> QED
  BY <1>4, <1>5, <1>7 DEF Base

(* Its end: the list is shorter, and scanned or mailed on. *)
LEMMA EraseBase ==
  ASSUME Base, Erase
  PROVE  Base'
<1> DEFINE a == world.a
<1>1. a \in Auctions /\ a = Head(removal) /\ world.at = "erase"
  BY FirstListed DEF Erase, Base, WorldInv
<1>2. /\ UNCHANGED <<bidder, bid, deleted, reason, expired, hand, coins, stake, earned, given,
                     saved, restarts>>
      /\ object' = Set(object, a, "freed")
      /\ row' = row \/ row' = Set(row, a, "absent")
      /\ spoilt' = spoilt \/ spoilt' = spoilt \union {a}
      /\ removal' = Tail(removal)
      /\ world' = [at |-> IF Len(removal) = 1 THEN "scan" ELSE "mail", a |-> None]
  BY DEF Erase, money, Spoil
<1>3. /\ removal' \in Seq(Auctions) /\ Len(removal') = Len(removal) - 1 /\ Len(removal) \in Nat
      /\ Len(removal) > 0
  BY <1>1, <1>2, FirstListed
<1>4. /\ world' \in [at : {"rest", "scan", "mail", "erase"}, a : Auctions \union {None}]
      /\ world'.at # "erase" /\ world'.a = None /\ (world'.at = "mail" => Len(removal) # 1)
  BY <1>2
<1>5. WorldInv'
  <2>1. Len(removal) # 1 => removal' # << >>
    BY <1>3
  <2> QED
    BY <1>4, <2>1 DEF WorldInv
<1>6. HandInv'
  BY <1>2 DEF Base, HandInv
<1>7. /\ object' \in [Auctions -> {"none", "live", "freed"}]
      /\ row' \in [Auctions -> {"absent", "queued", "written"}]
  BY <1>1, <1>2, Types DEF Base, Set
<1>8. TypeOK'
  BY <1>1, <1>2, <1>3, <1>4, <1>7 DEF Base, TypeOK
<1> QED
  BY <1>5, <1>6, <1>8 DEF Base

(* The order in which UpdateAuctions meets the auctions whose time is over *)
(* lists each of them once.                                                *)
LEMMA Ordered ==
  ASSUME NEW order \in SetToSeqs(Over)
  PROVE  /\ order \in Seq(Auctions)
         /\ \A i \in 1 .. Len(order) : order[i] \in Over
         /\ \A i, j \in 1 .. Len(order) : order[i] = order[j] => i = j
<1>1. Over \subseteq Auctions /\ IsFiniteSet(Over)
  BY AuctionAssumption, FS_Subset DEF Over
<1>2. Cardinality(Over) \in Nat
  BY <1>1, FS_CardinalityType
<1>3. /\ order \in [1 .. Cardinality(Over) -> Over]
      /\ \A i, j \in 1 .. Cardinality(Over) : order[i] = order[j] => i = j
  BY DEF SetToSeqs
<1>4. order \in Seq(Over) /\ Len(order) = Cardinality(Over)
  BY <1>2, <1>3
<1>5. order \in Seq(Auctions)
  BY <1>1, <1>4
<1> QED
  BY <1>3, <1>4, <1>5

(* UpdateAuctions: an auction is won only when it has a bidder. *)
LEMMA UpdateAuctionsBase ==
  ASSUME Base, UpdateAuctions
  PROVE  Base'
<1>1. /\ UNCHANGED <<object, bidder, bid, expired, hand, coins, stake, earned, given, row, saved,
                     restarts>>
      /\ world' = Rest /\ spoilt' \subseteq spoilt \union Over
  BY DEF UpdateAuctions, money, table
<1>2. removal' \in Seq(Auctions)
  <2>1. PICK order \in SetToSeqs(Over) : removal' = removal \o order
    BY DEF UpdateAuctions
  <2>2. order \in Seq(Auctions) /\ removal \in Seq(Auctions)
    BY Ordered, Types DEF Base
  <2> QED
    BY <2>1, <2>2
<1>3. deleted' \in [Auctions -> BOOLEAN]
  BY DEF UpdateAuctions
<1>4. /\ reason' \in [Auctions -> {"none", "expired", "won", "cancelled"}]
      /\ \A a \in Auctions : reason'[a] = "won" => bidder[a] # None
  <2>1. reason \in [Auctions -> {"none", "expired", "won", "cancelled"}]
    BY Types DEF Base
  <2>2. \A a \in Auctions : reason'[a] =
          IF a \notin Over THEN reason[a] ELSE IF bidder[a] = None THEN "expired" ELSE "won"
    BY DEF UpdateAuctions
  <2>3. reason' = [a \in Auctions |->
          IF a \notin Over THEN reason[a] ELSE IF bidder[a] = None THEN "expired" ELSE "won"]
    BY DEF UpdateAuctions
  <2> QED
    BY <2>1, <2>2, <2>3 DEF Base, HandInv
<1>5. /\ world' \in [at : {"rest", "scan", "mail", "erase"}, a : Auctions \union {None}]
      /\ WorldInv'
  BY <1>1 DEF Rest, WorldInv
<1>6. HandInv'
  BY <1>1, <1>4 DEF Base, HandInv
<1>7. TypeOK'
  <2>1. spoilt' \subseteq Auctions
    BY <1>1 DEF Base, TypeOK, Over
  <2> QED
    BY <1>1, <1>2, <1>3, <1>4, <1>5, <2>1 DEF Base, TypeOK
<1> QED
  BY <1>5, <1>6, <1>7 DEF Base

-----------------------------------------------------------------------------
(* The database, the clock and the restart. *)
LEMMA InsertExpireBase ==
  ASSUME Base, NEW a \in Auctions, Insert(a) \/ Expire(a)
  PROVE  Base'
<1>1. UNCHANGED <<object, bidder, bid, deleted, reason, removal, world, hand, coins, stake, earned,
                  given, saved, restarts, spoilt>>
  BY DEF Insert, Expire, auction, money, table, history
<1>2. row' \in [Auctions -> {"absent", "queued", "written"}]
  <2>1. row \in [Auctions -> {"absent", "queued", "written"}]
    BY Types DEF Base
  <2>2. row' = row \/ row' = [row EXCEPT ![a] = "written"]
    BY DEF Insert, Expire, table, Set
  <2> QED
    BY <2>1, <2>2
<1>3. expired' \in [Auctions -> BOOLEAN]
  <2>1. expired \in [Auctions -> BOOLEAN]
    BY Types DEF Base
  <2>2. expired' = expired \/ expired' = [expired EXCEPT ![a] = TRUE]
    BY DEF Insert, Expire, auction, Set
  <2> QED
    BY <2>1, <2>2, Zenon
<1>4. HandInv'
  BY <1>1 DEF Base, HandInv
<1>5. TypeOK'
  BY <1>1, <1>2, <1>3 DEF Base, TypeOK
<1> QED
  BY <1>1, <1>4, <1>5, SameWorld DEF Base

(* LoadAuctions: the marks are forgotten with the list. *)
LEMMA RestartBase ==
  ASSUME Base, Restart
  PROVE  Base'
<1> DEFINE rows == {a \in Auctions : row[a] # "absent"}
<1>1. /\ UNCHANGED <<expired, world, hand, coins, stake, earned, given, saved>>
      /\ world = Rest /\ \A p \in Players : hand[p] = Idle
      /\ restarts < MaxRestarts /\ restarts' = restarts + 1
      /\ removal' = << >> /\ spoilt' \subseteq spoilt \union rows
  BY DEF Restart, money
<1>2. /\ row' = [a \in Auctions |-> IF a \in rows THEN "written" ELSE "absent"]
      /\ object' = [a \in Auctions |-> IF a \in rows THEN "live" ELSE object[a]]
      /\ bidder' = [a \in Auctions |-> IF a \in rows THEN saved[a].bidder ELSE bidder[a]]
      /\ bid' = [a \in Auctions |-> IF a \in rows THEN saved[a].bid ELSE bid[a]]
      /\ deleted' = [a \in Auctions |-> deleted[a] /\ a \notin rows]
      /\ reason' = [a \in Auctions |-> IF a \in rows THEN "none" ELSE reason[a]]
  BY DEF Restart
<1>3. \A a \in Auctions : saved[a].bidder \in Players \union {None} /\ saved[a].bid \in Nat
  BY Types DEF Base
<1>4. /\ row' \in [Auctions -> {"absent", "queued", "written"}]
      /\ object' \in [Auctions -> {"none", "live", "freed"}]
      /\ bidder' \in [Auctions -> Players \union {None}]
      /\ bid' \in [Auctions -> Nat]
      /\ reason' \in [Auctions -> {"none", "expired", "won", "cancelled"}]
  <2> HIDE DEF rows
  <2> QED
    BY <1>2, <1>3, Types DEF Base
<1>5. deleted' \in [Auctions -> BOOLEAN]
  BY <1>2
<1>6. restarts' \in 0 .. MaxRestarts
  <2>1. restarts \in 0 .. MaxRestarts /\ MaxRestarts \in Nat
    BY AuctionAssumption DEF Base, TypeOK
  <2>2. restarts < MaxRestarts /\ restarts' = restarts + 1
    BY <1>1
  <2> QED
    BY ONLY <2>1, <2>2
<1>7. WorldInv'
  BY <1>1 DEF WorldInv, Rest
<1>8. HandInv'
  <2>1. \A a \in Auctions : reason'[a] = "won" => bidder'[a] # None
    <3> HIDE DEF rows
    <3> QED
      BY <1>2 DEF Base, HandInv
  <2>2. \A p \in Players : hand'[p] = Idle
    BY <1>1
  <2> QED
    BY <2>1, <2>2, IdleHand DEF HandInv
<1>9. TypeOK'
  <2>1. spoilt' \subseteq Auctions /\ removal' \in Seq(Auctions)
    BY <1>1 DEF Base, TypeOK
  <2>2. UNCHANGED <<expired, world, hand, coins, stake, earned, given, saved>>
    BY <1>1
  <2>3. {deleted', expired'} \subseteq [Auctions -> BOOLEAN]
    BY <1>5, <2>2 DEF Base, TypeOK
  <2> HIDE DEF rows
  <2>4. /\ world' \in [at : {"rest", "scan", "mail", "erase"}, a : Auctions \union {None}]
        /\ hand' \in [Players -> Hands]
        /\ coins' \in [Players -> Nat] /\ stake' \in [Auctions -> [Players -> Int]]
        /\ earned' \in [Auctions -> Nat] /\ given' \in [Auctions -> Seq(Players)]
        /\ saved' \in [Auctions -> [bidder : Players \union {None}, bid : Nat]]
    BY <2>2, Types DEF Base
  <2> QED
    BY <1>4, <1>6, <2>1, <2>3, <2>4 DEF TypeOK, Hands, Stages
<1> QED
  BY <1>7, <1>8, <1>9 DEF Base

(* Every step keeps what holds of all auctions. *)
LEMMA NextBase == Base /\ [Next]_vars => Base'
<1> SUFFICES ASSUME Base, [Next]_vars PROVE Base'
  OBVIOUS
<1>1. CASE UNCHANGED vars
  BY <1>1 DEF Base, TypeOK, HandInv, WorldInv, vars, auction, money, table, history
<1>2. ASSUME NEW p \in Players, Handler(p)
      PROVE  Base'
  BY <1>2, SaveToDBBase, RefundBase, AssignBase, TestDeletedBase, SetDeletedBase, PushBase,
     ReplyBase DEF Handler
<1>3. ASSUME NEW p \in Players, NEW a \in Auctions,
             SellItem(p, a) \/ Cancel(p, a) \/ \E price \in Prices : PlaceBid(p, a, price)
      PROVE  Base'
  BY <1>3, SellItemBase, CancelBase, PlaceBidBase
<1>4. CASE Update \/ UpdateAuctions \/ Restart
  BY <1>4, UpdateDeletionQueueBase, RemoveAuctionBase, EraseBase, UpdateAuctionsBase, RestartBase
     DEF Update
<1>5. ASSUME NEW a \in Auctions, Insert(a) \/ Expire(a)
      PROVE  Base'
  BY <1>5, InsertExpireBase
<1> QED
  BY <1>1, <1>2, <1>3, <1>4, <1>5 DEF Next

(* The types of every component, for every instance: the coins of a player *)
(* and what a seller earns never go below 0, and a won item is mailed to a *)
(* player.                                                                 *)
THEOREM TypeCorrect == Spec => []TypeOK
<1>1. Spec => []Base
  BY InitBase, NextBase, PTL DEF Spec
<1>2. Base => TypeOK
  BY DEF Base
<1> QED
  BY <1>1, <1>2, PTL

-----------------------------------------------------------------------------
(* An unspoilt auction. *)

Erasing(a) == world.at = "erase" /\ world.a = a

(* Its removal: it is alive while a handler works on it or removalList     *)
(* lists it (a handler that only answers may find it freed), it is listed  *)
(* once and marked then, and a handler between the test and the push of    *)
(* QueueDeletion is the only one there, has not marked it before it set    *)
(* the mark, and finds it not listed yet.                                  *)
QueueInv(a) ==
  /\ \A p \in Players : hand[p].a = a =>
       /\ object[a] # "none"
       /\ hand[p].at # "reply" => object[a] = "live"
  /\ \A i \in 1 .. Len(removal) : removal[i] = a => object[a] = "live" /\ deleted[a]
  /\ \A i, j \in 1 .. Len(removal) : removal[i] = a /\ removal[j] = a => i = j
  /\ \A p \in Queueing(a) :
       /\ hand[p].at = "push" <=> deleted[a]
       /\ \A i \in 1 .. Len(removal) : removal[i] # a
       /\ \A q \in Queueing(a) : q = p

(* Its money before the mails: a bid in progress is the only one; it has   *)
(* paid and the last bidder is still owed ("refund"), or has been paid     *)
(* back ("assign").  An auction marked as expired has no bid.              *)
OpenInv(a) ==
  /\ \A p \in Bidding(a) : given[a] = << >> /\ \A q \in Bidding(a) : q = p
  /\ Bidding(a) = {} /\ given[a] = << >> => \A p \in Players : stake[a][p] = Owed(a, p)
  /\ \A q \in Bidding(a) : \A p \in Players :
       stake[a][p] = (IF hand[q].at = "refund" THEN Owed(a, p) ELSE 0)
                     + (IF p = q THEN hand[q].price ELSE 0)
  /\ object[a] = "none" => bidder[a] = None
  /\ reason[a] = "expired" /\ given[a] = << >> => deleted[a] /\ bidder[a] = None /\ Bidding(a) = {}
  /\ given[a] = << >> => earned[a] = 0 /\ object[a] # "freed" /\ ~Erasing(a)

(* Its money after them. *)
ClosedInv(a) ==
  given[a] # << >> =>
    /\ object[a] = "freed" \/ Erasing(a)
    /\ Len(given[a]) = 1
    /\ reason[a] = "won" => /\ \A p \in Players : stake[a][p] = Owed(a, p)
                            /\ given[a][1] = bidder[a]
                            /\ earned[a] = bid[a] - Cut(bid[a]) + Deposit
    /\ reason[a] # "won" => \A p \in Players : stake[a][p] = 0

Clean(a) == QueueInv(a) /\ OpenInv(a) /\ ClosedInv(a)

(* The inductive invariant. *)
IInv == Base /\ \A a \in Auctions \ spoilt : Clean(a)

(* A step that neither marks the auction nor lets a handler into the       *)
(* window of QueueDeletion keeps its removal as it is.                     *)
LEMMA QueueFrame ==
  ASSUME NEW a \in Auctions, QueueInv(a),
         object'[a] = object[a], deleted'[a] <=> deleted[a],
         \A p \in Players : hand'[p].a = a =>
           \/ object[a] = "live"
           \/ hand[p].a = a /\ (hand[p].at = "reply" => hand'[p].at = "reply"),
         \A p \in Players : hand'[p].a = a /\ hand'[p].at \in {"set", "push"} => hand'[p] = hand[p],
         \A i \in 1 .. Len(removal') : removal'[i] = a =>
           \E j \in 1 .. Len(removal) : removal[j] = a,
         \A i, j \in 1 .. Len(removal') : removal'[i] = a /\ removal'[j] = a => i = j
  PROVE  QueueInv(a)'
<1>1. \A p \in Players : hand'[p].a = a =>
        /\ object'[a] # "none"
        /\ hand'[p].at # "reply" => object'[a] = "live"
  BY DEF QueueInv
<1>2. \A i \in 1 .. Len(removal') : removal'[i] = a => object'[a] = "live" /\ deleted'[a]
  BY DEF QueueInv
<1>3. \A p \in Players : p \in Queueing(a)' => p \in Queueing(a) /\ hand'[p] = hand[p]
  BY DEF Queueing
<1>4. \A p \in Players : p \in Queueing(a)' =>
        /\ hand'[p].at = "push" <=> deleted'[a]
        /\ \A i \in 1 .. Len(removal') : removal'[i] # a
        /\ \A q \in Queueing(a)' : q = p
  <2>1. \A q \in Queueing(a)' : q \in Players
    BY DEF Queueing
  <2> QED
    BY <1>3, <2>1 DEF QueueInv
<1>5. Queueing(a)' \subseteq Players
  BY DEF Queueing
<1> QED
  BY <1>1, <1>2, <1>4, <1>5 DEF QueueInv

(* A step that leaves the auction's books and its bids alone. *)
LEMMA MoneyFrame ==
  ASSUME NEW a \in Auctions, OpenInv(a), ClosedInv(a),
         object'[a] = object[a], deleted'[a] <=> deleted[a], reason'[a] = reason[a],
         bidder'[a] = bidder[a], bid'[a] = bid[a], stake'[a] = stake[a],
         earned'[a] = earned[a], given'[a] = given[a],
         \A p \in Players : \/ hand'[p] = hand[p]
                            \/ /\ ~(hand[p].a = a /\ hand[p].at \in {"refund", "assign"})
                               /\ ~(hand'[p].a = a /\ hand'[p].at \in {"refund", "assign"}),
         Erasing(a)' <=> Erasing(a)
  PROVE  OpenInv(a)' /\ ClosedInv(a)'
<1>1. Bidding(a)' = Bidding(a)
  BY DEF Bidding
<1>2. \A p \in Players : Owed(a, p)' = Owed(a, p)
  BY DEF Owed
<1>3. Cut(bid[a])' = Cut(bid[a])
  BY DEF Cut
<1>4. ClosedInv(a)'
  BY <1>2, <1>3 DEF ClosedInv
<1>5. \A q \in Bidding(a) : q \in Players /\ hand'[q] = hand[q]
  BY DEF Bidding
<1>6. OpenInv(a)'
  BY <1>1, <1>2, <1>5 DEF OpenInv
<1> QED
  BY <1>4, <1>6

(* The list and the world thread as they were. *)
LEMMA SameListFrame ==
  ASSUME NEW a \in Auctions, QueueInv(a), UNCHANGED <<removal, world>>
  PROVE  /\ \A i \in 1 .. Len(removal') : removal'[i] = a =>
              \E j \in 1 .. Len(removal) : removal[j] = a
         /\ \A i, j \in 1 .. Len(removal') : removal'[i] = a /\ removal'[j] = a => i = j
         /\ Erasing(a)' <=> Erasing(a)
  BY DEF QueueInv, Erasing

(* The auction that is being erased is the first of the list. *)
LEMMA ErasingFirst ==
  ASSUME Base, NEW a, Erasing(a)
  PROVE  1 \in 1 .. Len(removal) /\ removal[1] = a
  BY FirstListed DEF Erasing, Base, WorldInv

(* An auction between QueueDeletion's test and its push is not mailed yet. *)
LEMMA QueueingOpen ==
  ASSUME Base, NEW a \in Auctions, Clean(a), NEW p \in Queueing(a)
  PROVE  given[a] = << >> /\ p \in Players /\ hand[p].a = a /\ object[a] = "live"
<1>1. p \in Players /\ hand[p].a = a /\ hand[p].at # "reply"
  BY DEF Queueing
<1>2. object[a] = "live" /\ \A i \in 1 .. Len(removal) : removal[i] # a
  BY <1>1 DEF Clean, QueueInv
<1>3. ~Erasing(a)
  BY <1>2, ErasingFirst
<1> QED
  BY <1>1, <1>2, <1>3 DEF Clean, ClosedInv

(* Steps that touch neither the marks nor the books. *)
LEMMA QuietClean ==
  ASSUME Base, NEW a \in Auctions, Clean(a),
         UNCHANGED <<object, bidder, bid, deleted, reason, removal, stake, earned, given>>,
         Erasing(a)' <=> Erasing(a),
         \A p \in Players : \/ hand'[p] = hand[p]
                            \/ /\ ~(hand[p].a = a /\ hand[p].at \in {"refund", "assign"})
                               /\ hand'[p].a = a => object[a] = "live" /\ hand'[p].at \in {"test", "reply"}
  PROVE  Clean(a)'
<1>1. QueueInv(a)'
  BY QueueFrame DEF Clean, QueueInv
<1>2. OpenInv(a)' /\ ClosedInv(a)'
  BY MoneyFrame DEF Clean
<1> QED
  BY <1>1, <1>2 DEF Clean

(* A new auction: nobody has it, nobody paid for it. *)
LEMMA SellItemClean ==
  ASSUME Base, NEW p \in Players, NEW b \in Auctions, SellItem(p, b),
         NEW a \in Auctions, Clean(a)
  PROVE  Clean(a)'
<1>1. /\ UNCHANGED <<bidder, deleted, reason, removal, world, stake, earned, given>>
      /\ hand[p] = Idle /\ object[b] = "none"
      /\ hand' = Set(hand, p, [at |-> "save", a |-> b, price |-> 0])
      /\ object' = Set(object, b, "live") /\ bid' = Set(bid, b, StartBid)
  BY DEF SellItem
<1>2. /\ \A q \in Players : q # p => hand'[q] = hand[q]
      /\ hand'[p].at = "save" /\ hand'[p].a = b
      /\ hand[p].a = None /\ hand[p].at = "idle" /\ None \notin Auctions
  BY <1>1, Types, IdleHand, AuctionAssumption DEF Base, Set
<1>3. /\ \A c \in Auctions : c # b => object'[c] = object[c] /\ bid'[c] = bid[c]
      /\ object'[b] = "live" /\ bid'[b] = StartBid
  BY <1>1, Types DEF Base, Set
<1>4. CASE a # b
  <2>1. QueueInv(a)'
    BY <1>1, <1>2, <1>3, <1>4, QueueFrame, SameListFrame DEF Clean
  <2>2. OpenInv(a)' /\ ClosedInv(a)'
    BY <1>1, <1>2, <1>3, <1>4, MoneyFrame, SameListFrame DEF Clean
  <2> QED
    BY <2>1, <2>2 DEF Clean
<1>5. CASE a = b
  <2>1. /\ \A q \in Players : hand[q].a # a
        /\ \A i \in 1 .. Len(removal) : removal[i] # a
        /\ bidder[a] = None
    BY <1>1, <1>5 DEF Clean, QueueInv, OpenInv
  <2>2. Queueing(a)' = {} /\ Bidding(a)' = {} /\ Bidding(a) = {}
    BY <1>2, <2>1 DEF Queueing, Bidding
  <2>3. QueueInv(a)'
    BY <1>1, <1>2, <1>3, <1>5, <2>1, <2>2 DEF QueueInv
  <2>4. ~Erasing(a) /\ ~Erasing(a)'
    <3>1. ~Erasing(a)
      BY <2>1, ErasingFirst
    <3> QED
      BY <1>1, <3>1 DEF Erasing
  <2>5. given[a] = << >>
    BY <1>1, <1>5, <2>4 DEF Clean, ClosedInv
  <2>6. \A q \in Players : Owed(a, q) = 0 /\ Owed(a, q)' = 0
    BY <1>1, <2>1, AuctionAssumption DEF Owed
  <2>7. \A q \in Players : stake'[a][q] = 0
    BY <1>1, <2>2, <2>5, <2>6 DEF Clean, OpenInv
  <2>8. OpenInv(a)'
    BY <1>1, <1>3, <1>5, <2>1, <2>2, <2>4, <2>5, <2>6, <2>7 DEF Clean, OpenInv
  <2>9. ClosedInv(a)'
    BY <1>1, <2>5 DEF ClosedInv
  <2> QED
    BY <2>3, <2>8, <2>9 DEF Clean
<1> QED
  BY <1>4, <1>5

(* SaveToDB, Cancel, and the answer. *)
LEMMA SaveCancelClean ==
  ASSUME Base, NEW p \in Players, NEW b, SaveToDB(p) \/ Cancel(p, b) \/ Reply(p),
         NEW a \in Auctions, Clean(a)
  PROVE  Clean(a)'
<1>1. /\ UNCHANGED <<object, bidder, bid, deleted, reason, removal, world, stake, earned, given>>
      /\ hand[p].at \in {"idle", "save", "reply"}
  BY IdleHand DEF SaveToDB, Cancel, Reply, auction, money
<1>2. PICK h : /\ hand' = Set(hand, p, h)
               /\ \/ h.a = None
                  \/ h.at = "test" /\ object[h.a] = "live"
                  \/ h.at = "reply" /\ h.a = hand[p].a /\ hand[p].at = "save"
  <2>1. CASE Cancel(p, b)
    <3> DEFINE h == [at |-> "test", a |-> b, price |-> 0]
    <3>1. hand' = Set(hand, p, h) /\ h.at = "test" /\ object[h.a] = "live"
      BY <2>1 DEF Cancel
    <3> QED
      BY <3>1
  <2>2. CASE SaveToDB(p)
    <3> DEFINE h == [at |-> "reply", a |-> hand[p].a, price |-> 0]
    <3>1. hand' = Set(hand, p, h) /\ h.at = "reply" /\ h.a = hand[p].a /\ hand[p].at = "save"
      BY <2>2 DEF SaveToDB, ToReply
    <3> QED
      BY <3>1
  <2>3. CASE Reply(p)
    BY <2>3, IdleHand DEF Reply
  <2> QED
    BY <2>1, <2>2, <2>3
<1>3. /\ \A q \in Players : q # p => hand'[q] = hand[q]
      /\ hand'[p] = h
  BY <1>2, Types DEF Base, Set
<1>4. h.a = a => object[a] = "live" /\ h.at \in {"test", "reply"}
  BY <1>2, AuctionAssumption DEF Clean, QueueInv
<1>5. Erasing(a)' <=> Erasing(a)
  BY <1>1 DEF Erasing
<1> QED
  BY <1>1, <1>3, <1>4, <1>5, QuietClean

(* The writing of the row, the clock, and the world thread between two    *)
(* removals.                                                               *)
LEMMA IdleClean ==
  ASSUME Base, NEW b, Insert(b) \/ Expire(b) \/ UpdateDeletionQueue \/ NotYet \/ UNCHANGED vars,
         NEW a \in Auctions, Clean(a)
  PROVE  Clean(a)'
<1>1. /\ UNCHANGED <<object, bidder, bid, deleted, reason, removal, stake, earned, given, hand>>
      /\ world' = world \/ UpdateDeletionQueue \/ NotYet
  BY DEF Insert, Expire, UpdateDeletionQueue, NotYet, vars, auction, money, table, history
<1>2. Erasing(a)' <=> Erasing(a)
  <2>1. UpdateDeletionQueue \/ NotYet => world.at # "erase" /\ world'.at # "erase"
    BY DEF UpdateDeletionQueue, NotYet, Rest
  <2> QED
    BY <1>1, <2>1 DEF Erasing
<1> QED
  BY <1>1, <1>2, QuietClean

(* PlaceBid: the bid that is the only one has paid. *)
LEMMA PlaceBidClean ==
  ASSUME Base, NEW p \in Players, NEW b \in Auctions, NEW price \in Prices,
         PlaceBid(p, b, price), NEW a \in Auctions, a \notin spoilt', Clean(a)
  PROVE  Clean(a)'
<1> DEFINE h == [at |-> "refund", a |-> b, price |-> price]
<1>1. /\ UNCHANGED <<object, bidder, bid, deleted, reason, removal, world, earned, given>>
      /\ hand[p] = Idle /\ object[b] = "live" /\ hand' = Set(hand, p, h)
      /\ stake' = [stake EXCEPT ![b] = [stake[b] EXCEPT ![p] = stake[b][p] + price]]
  BY DEF PlaceBid, auction
<1>2. /\ \A q \in Players : q # p => hand'[q] = hand[q]
      /\ hand'[p].at = "refund" /\ hand'[p].a = b /\ hand'[p].price = price
      /\ hand[p].a = None /\ hand[p].at = "idle" /\ None \notin Auctions
  BY <1>1, Types, IdleHand, AuctionAssumption DEF Base, Set
<1>3. /\ \A c \in Auctions : c # b => stake'[c] = stake[c]
      /\ \A q \in Players : stake'[b][q] = stake[b][q] + IF q = p THEN price ELSE 0
  <2>1. stake \in [Auctions -> [Players -> Int]] /\ stake[b] \in [Players -> Int]
    BY Types DEF Base
  <2> QED
    BY <1>1, <2>1
<1> HIDE DEF h
<1>4. QueueInv(a)'
  BY <1>1, <1>2, QueueFrame, SameListFrame DEF Clean
<1>5. CASE a # b
  BY <1>1, <1>2, <1>3, <1>4, <1>5, MoneyFrame, SameListFrame DEF Clean
<1>6. CASE a = b
  <2>1. /\ Bidding(a) = {} /\ ~(deleted[a] /\ reason[a] = "expired")
        /\ world # [at |-> "erase", a |-> a]
    BY <1>6 DEF PlaceBid, Spoil
  <2>2. ~Erasing(a) /\ ~Erasing(a)'
    <3>1. world \in [at : {"rest", "scan", "mail", "erase"}, a : Auctions \union {None}]
      BY Types DEF Base
    <3>2. ~Erasing(a)
      BY <2>1, <3>1 DEF Erasing
    <3> QED
      BY <1>1, <3>2 DEF Erasing
  <2>3. given[a] = << >>
    BY <1>1, <1>6, <2>2 DEF Clean, ClosedInv
  <2>4. reason[a] # "expired"
    BY <2>1, <2>3 DEF Clean, OpenInv
  <2>5. Bidding(a)' = {p}
    BY <1>2, <1>6, <2>1 DEF Bidding
  <2>6. \A q \in Players : Owed(a, q)' = Owed(a, q)
    BY <1>1 DEF Owed
  <2>7. \A q \in Players : stake'[a][q] = Owed(a, q) + IF q = p THEN price ELSE 0
    BY <1>3, <1>6, <2>1, <2>3 DEF Clean, OpenInv
  <2>8. OpenInv(a)'
    BY <1>1, <1>2, <1>6, <2>2, <2>3, <2>4, <2>5, <2>6, <2>7 DEF Clean, OpenInv
  <2>9. ClosedInv(a)'
    BY <1>1, <2>3 DEF ClosedInv
  <2> QED
    BY <1>4, <2>8, <2>9 DEF Clean
<1> QED
  BY <1>5, <1>6

(* Refund: the last bidder is paid back what he is owed. *)
LEMMA RefundClean ==
  ASSUME Base, NEW p \in Players, Refund(p), NEW a \in Auctions, Clean(a)
  PROVE  Clean(a)'
<1> DEFINE b == hand[p].a
           h == [at |-> "assign", a |-> hand[p].a, price |-> hand[p].price]
<1>1. hand' = Set(hand, p, h) /\ h \in Hands
  BY GotoHand DEF Refund, Base, Stages
<1>2. /\ UNCHANGED <<object, bidder, bid, deleted, reason, removal, world, earned, given>>
      /\ hand[p].at = "refund"
  BY DEF Refund, auction
<1>3. /\ \A q \in Players : q # p => hand'[q] = hand[q]
      /\ hand'[p].at = "assign" /\ hand'[p].a = b /\ hand'[p].price = hand[p].price
  BY <1>1, SetHand DEF Base
<1>4. b \in Auctions
  BY <1>2, Held
<1>5. /\ \A c \in Auctions : c # b => stake'[c] = stake[c]
      /\ \A q \in Players : stake'[b][q] = stake[b][q] - Owed(b, q)
  BY <1>4, Repaid DEF Refund
<1> HIDE DEF b, h
<1>6. QueueInv(a)'
  BY <1>2, <1>3, QueueFrame, SameListFrame DEF Clean, b
<1>7. CASE a # b
  BY <1>2, <1>3, <1>5, <1>6, <1>7, MoneyFrame, SameListFrame DEF Clean, b
<1>8. CASE a = b
  <2>1. p \in Bidding(a) /\ p \in Bidding(a)'
    BY <1>2, <1>3, <1>8 DEF Bidding, b
  <2>2. /\ Bidding(a) = {p} /\ given[a] = << >>
        /\ \A q \in Players : stake[a][q] = Owed(a, q) + IF q = p THEN hand[p].price ELSE 0
    BY <1>2, <2>1 DEF Clean, OpenInv
  <2>3. Bidding(a)' = {p}
    BY <1>3, <2>1, <2>2 DEF Bidding
  <2>4. \A q \in Players : stake'[a][q] = IF q = p THEN hand[p].price ELSE 0
    <3>1. \A q \in Players : Owed(a, q) \in Int
      BY Types DEF Base, Owed
    <3>2. hand[p].price \in Nat
      BY Held
    <3> QED
      BY <1>5, <1>8, <2>2, <3>1, <3>2
  <2>5. Erasing(a)' <=> Erasing(a)
    BY <1>2 DEF Erasing
  <2>a. reason[a] # "expired"
    BY <2>2 DEF Clean, OpenInv
  <2>b. \A q \in Players : stake'[a][q] = (IF hand'[p].at = "refund" THEN Owed(a, q)' ELSE 0)
                                         + (IF q = p THEN hand'[p].price ELSE 0)
    <3>1. hand'[p].at # "refund" /\ hand'[p].price = hand[p].price /\ hand[p].price \in Nat
      BY <1>3, Held
    <3> QED
      BY <2>4, <3>1
  <2>6. OpenInv(a)'
    BY <1>2, <2>2, <2>3, <2>5, <2>a, <2>b DEF Clean, OpenInv
  <2>7. ClosedInv(a)'
    BY <1>2, <2>2 DEF ClosedInv
  <2> QED
    BY <1>6, <2>6, <2>7 DEF Clean
<1> QED
  BY <1>7, <1>8

(* Assign: the bidder who paid is the highest bidder. *)
LEMMA AssignClean ==
  ASSUME Base, NEW p \in Players, Assign(p), NEW a \in Auctions, Clean(a)
  PROVE  Clean(a)'
<1> DEFINE b == hand[p].a
           price == hand[p].price
<1>1. b \in Auctions /\ b # None /\ hand[p].at = "assign" /\ price \in Nat
  BY Held, AuctionAssumption DEF Assign
<1>2. /\ bidder' = Set(bidder, b, p) /\ bid' = Set(bid, b, price)
      /\ UNCHANGED <<object, deleted, reason, removal, world, stake, earned, given>>
  BY DEF Assign, money
<1>3. Goto(p, "test") \/ ToReply(p)
  BY DEF Assign
<1>4. PICK h \in Hands : /\ hand' = Set(hand, p, h)
                         /\ \/ Ending(h, b)
                            \/ h.at = "test" /\ h.a = b
  BY <1>3, GotoHand, EndHand DEF Base, Stages
<1>5. /\ \A q \in Players : q # p => hand'[q] = hand[q]
      /\ hand'[p].at \in {"idle", "reply", "test"} /\ (hand'[p].a = b \/ hand'[p].a = None)
  BY <1>4, SetHand, IdleHand DEF Base, Ending
<1>6. /\ bidder'[b] = p /\ bid'[b] = price
      /\ \A c \in Auctions : c # b => bidder'[c] = bidder[c] /\ bid'[c] = bid[c]
  BY <1>1, <1>2, Types DEF Base, Set
<1> HIDE DEF b, price
<1>7. QueueInv(a)'
  BY <1>1, <1>2, <1>5, QueueFrame, SameListFrame, AuctionAssumption DEF Clean, b
<1>8. CASE a # b
  BY <1>1, <1>2, <1>5, <1>6, <1>7, <1>8, MoneyFrame, SameListFrame, AuctionAssumption DEF Clean, b
<1>9. CASE a = b
  <2>1. p \in Bidding(a)
    BY <1>1, <1>9 DEF Bidding, b
  <2>2. /\ Bidding(a) = {p} /\ given[a] = << >>
        /\ \A q \in Players : stake[a][q] = IF q = p THEN price ELSE 0
    BY <1>1, <2>1 DEF Clean, OpenInv, price
  <2>3. Bidding(a)' = {}
    BY <1>5, <2>2 DEF Bidding
  <2>4. \A q \in Players : stake'[a][q] = Owed(a, q)'
    BY <1>2, <1>6, <1>9, <2>2 DEF Owed
  <2>5. Erasing(a)' <=> Erasing(a)
    BY <1>2 DEF Erasing
  <2>6. object[a] = "live"
    BY <1>1, <1>9 DEF Clean, QueueInv, b
  <2>7. OpenInv(a)'
    BY <1>2, <2>1, <2>2, <2>3, <2>4, <2>5, <2>6 DEF Clean, OpenInv
  <2>8. ClosedInv(a)'
    BY <1>2, <2>2 DEF ClosedInv
  <2> QED
    BY <1>7, <2>7, <2>8 DEF Clean
<1> QED
  BY <1>8, <1>9

(* QueueDeletion's test: who passes it is alone in the window, and finds   *)
(* the auction unmarked, hence not listed.                                 *)
LEMMA TestDeletedClean ==
  ASSUME Base, NEW p \in Players, TestDeleted(p),
         NEW a \in Auctions, a \notin spoilt', Clean(a)
  PROVE  Clean(a)'
<1> DEFINE b == hand[p].a
<1>1. /\ b \in Auctions /\ b # None /\ hand[p].at = "test"
  BY Held, AuctionAssumption DEF TestDeleted
<1>2. UNCHANGED <<object, bidder, bid, deleted, reason, removal, world, stake, earned, given>>
  BY DEF TestDeleted, auction, money
<1>3. \/ deleted[b] /\ AfterQueueDeletion(p)
      \/ ~deleted[b] /\ Goto(p, "set")
  BY DEF TestDeleted
<1>4. PICK h \in Hands : /\ hand' = Set(hand, p, h)
                         /\ \/ Ending(h, b)
                            \/ h.at = "set" /\ h.a = b /\ ~deleted[b]
  BY <1>3, GotoHand, EndHand DEF Base, Stages
<1>5. /\ \A q \in Players : q # p => hand'[q] = hand[q]
      /\ \/ hand'[p].a = None
         \/ hand'[p].at = "reply" /\ hand'[p].a = b
         \/ hand'[p].at = "set" /\ hand'[p].a = b /\ ~deleted[b]
  BY <1>4, SetHand, IdleHand DEF Base, Ending
<1> HIDE DEF b
<1>6. OpenInv(a)' /\ ClosedInv(a)'
  BY <1>1, <1>2, <1>5, MoneyFrame, SameListFrame, AuctionAssumption DEF Clean
<1>7. CASE a # b \/ hand'[p].at # "set"
  <2>1. hand'[p].a = a => hand'[p].at = "reply" /\ hand[p].a = a
    BY <1>5, <1>7, AuctionAssumption DEF b
  <2>2. QueueInv(a)'
    BY <1>2, <1>5, <2>1, QueueFrame, SameListFrame DEF Clean
  <2> QED
    BY <1>6, <2>2 DEF Clean
<1>8. CASE a = b /\ hand'[p].at = "set"
  <2>0. ~deleted[a] /\ hand'[p].a = a
    BY <1>3, <1>4, <1>5, <1>8, SetHand, IdleHand DEF Base, Ending
  <2>1. Queueing(a) = {} /\ ~deleted[a]
    BY <1>8, <2>0 DEF TestDeleted, Spoil, b
  <2>2. object[a] = "live" /\ \A i \in 1 .. Len(removal) : removal[i] # a
    BY <1>1, <1>8, <2>1 DEF Clean, QueueInv, b
  <2>3. Queueing(a)' = {p} /\ hand'[p].at = "set"
    BY <1>5, <1>8, <2>0, <2>1 DEF Queueing
  <2>4. QueueInv(a)'
    BY <1>2, <2>1, <2>2, <2>3 DEF QueueInv
  <2> QED
    BY <1>6, <2>4 DEF Clean
<1> QED
  BY <1>7, <1>8

(* Its mark: nobody else is there, and no mail is sent. *)
LEMMA SetDeletedClean ==
  ASSUME Base, NEW p \in Players, SetDeleted(p), NEW a \in Auctions, Clean(a)
  PROVE  Clean(a)'
<1> DEFINE b == hand[p].a
           h == [at |-> "push", a |-> hand[p].a, price |-> hand[p].price]
           r == IF hand[p].price = 0 THEN "cancelled" ELSE "won"
<1>1. /\ b \in Auctions /\ b # None /\ hand[p].at = "set"
  BY Held, AuctionAssumption DEF SetDeleted
<1>2. /\ UNCHANGED <<object, bidder, bid, removal, world, stake, earned, given>>
      /\ deleted' = Set(deleted, b, TRUE) /\ reason' = Set(reason, b, r)
  BY DEF SetDeleted, money
<1>3. hand' = Set(hand, p, h) /\ h \in Hands
  BY GotoHand DEF Base, Stages, SetDeleted
<1>4. /\ \A q \in Players : q # p => hand'[q] = hand[q]
      /\ hand'[p].at = "push" /\ hand'[p].a = b
  BY <1>3, SetHand DEF Base
<1>5. /\ deleted'[b] /\ reason'[b] \in {"cancelled", "won"}
      /\ \A c \in Auctions : c # b => (deleted'[c] <=> deleted[c]) /\ reason'[c] = reason[c]
  BY <1>1, <1>2, Types DEF Base, Set
<1> HIDE DEF b, h, r
<1>6. CASE a # b
  <2>1. QueueInv(a)'
    <3>1. QueueInv(a) /\ UNCHANGED <<removal, world>>
      BY <1>2 DEF Clean
    <3>2. /\ \A i \in 1 .. Len(removal') : removal'[i] = a =>
               \E j \in 1 .. Len(removal) : removal[j] = a
          /\ \A i, j \in 1 .. Len(removal') : removal'[i] = a /\ removal'[j] = a => i = j
      BY <3>1, SameListFrame
    <3>3. object'[a] = object[a] /\ (deleted'[a] <=> deleted[a])
      BY <1>2, <1>5, <1>6
    <3>4. \A q \in Players : hand'[q].a = a => hand'[q] = hand[q]
      BY <1>4, <1>6
    <3> QED
      BY <3>1, <3>2, <3>3, <3>4, QueueFrame
  <2>2. OpenInv(a)' /\ ClosedInv(a)'
    BY <1>1, <1>2, <1>4, <1>5, <1>6, MoneyFrame, SameListFrame DEF Clean, b
  <2> QED
    BY <2>1, <2>2 DEF Clean
<1>7. CASE a = b
  <2>1. p \in Queueing(a)
    BY <1>1, <1>7 DEF Queueing, b
  <2>2. given[a] = << >> /\ object[a] = "live"
    BY <2>1, QueueingOpen
  <2>3. Queueing(a) = {p} /\ \A i \in 1 .. Len(removal) : removal[i] # a
    BY <2>1 DEF Clean, QueueInv
  <2>4. Queueing(a)' = {p}
    BY <1>4, <1>7, <2>3 DEF Queueing
  <2>5. QueueInv(a)'
    BY <1>2, <1>4, <1>5, <1>7, <2>2, <2>3, <2>4 DEF QueueInv
  <2>6. Bidding(a)' = Bidding(a) /\ \A q \in Bidding(a) : q \in Players /\ hand'[q] = hand[q]
    BY <1>1, <1>4 DEF Bidding
  <2>7. /\ Erasing(a)' <=> Erasing(a)
        /\ \A q \in Players : Owed(a, q)' = Owed(a, q)
    BY <1>2 DEF Erasing, Owed
  <2>8. OpenInv(a)'
    <3>1. \A q \in Bidding(a) : \A u \in Players :
            stake'[a][u] = (IF hand'[q].at = "refund" THEN Owed(a, u)' ELSE 0)
                           + (IF u = q THEN hand'[q].price ELSE 0)
      BY <1>2, <2>6, <2>7 DEF Clean, OpenInv
    <3>2. reason'[a] # "expired"
      BY <1>5, <1>7
    <3>3. Bidding(a) = {} => \A u \in Players : stake'[a][u] = Owed(a, u)'
      BY <1>2, <2>2, <2>7 DEF Clean, OpenInv
    <3>4. \A q, u \in Bidding(a) : q = u
      BY DEF Clean, OpenInv
    <3> QED
      <4>1. given'[a] = << >> /\ object'[a] = "live" /\ ~Erasing(a)' /\ earned'[a] = 0
        BY <1>2, <2>2, <2>7 DEF Clean, OpenInv
      <4> QED
        BY <2>6, <3>1, <3>2, <3>3, <3>4, <4>1 DEF OpenInv
  <2>9. ClosedInv(a)'
    BY <1>2, <2>2 DEF ClosedInv
  <2> QED
    BY <2>5, <2>8, <2>9 DEF Clean
<1> QED
  BY <1>6, <1>7

(* Its push: the auction is on the list, once. *)
LEMMA PushClean ==
  ASSUME Base, NEW p \in Players, Push(p), NEW a \in Auctions, Clean(a)
  PROVE  Clean(a)'
<1> DEFINE b == hand[p].a
           n == Len(removal)
<1>1. /\ b \in Auctions /\ hand[p].at = "push" /\ None \notin Auctions
  BY Held, AuctionAssumption DEF Push
<1>2. /\ UNCHANGED <<object, bidder, bid, deleted, reason, world, stake, earned, given>>
      /\ AfterQueueDeletion(p) /\ removal' = Append(removal, b)
  BY DEF Push, auction, money
<1>a. PICK h \in Hands : hand' = Set(hand, p, h) /\ Ending(h, b)
  BY <1>2, EndHand DEF Base
<1>3. /\ \A q \in Players : q # p => hand'[q] = hand[q]
      /\ hand'[p].a = None \/ (hand'[p].a = b /\ hand'[p].at = "reply")
  BY <1>a, SetHand, IdleHand DEF Base, Ending
<1>4. /\ n \in Nat /\ Len(removal') = n + 1 /\ removal'[n + 1] = b
      /\ \A i \in 1 .. n : removal'[i] = removal[i]
  <2>1. removal \in Seq(Auctions)
    BY Types DEF Base
  <2> HIDE DEF b
  <2> QED
    BY <1>1, <1>2, <2>1
<1>5. Erasing(a)' <=> Erasing(a)
  BY <1>2 DEF Erasing
<1>6. OpenInv(a)' /\ ClosedInv(a)'
  BY <1>1, <1>2, <1>3, <1>5, MoneyFrame DEF Clean
<1> HIDE DEF n
<1>7. CASE a # b
  <2>1. \A i \in 1 .. Len(removal') : removal'[i] = a => i \in 1 .. n /\ removal[i] = a
    BY <1>4, <1>7
  <2>2. QueueInv(a)'
    <3> HIDE DEF b
    <3>1. \A i, j \in 1 .. Len(removal') : removal'[i] = a /\ removal'[j] = a => i = j
      BY <2>1 DEF Clean, QueueInv, n
    <3>2. \A i \in 1 .. Len(removal') : removal'[i] = a =>
            \E j \in 1 .. Len(removal) : removal[j] = a
      BY <2>1 DEF n
    <3> QED
      BY <1>1, <1>2, <1>3, <3>1, <3>2, QueueFrame DEF Clean
  <2> QED
    BY <1>6, <2>2 DEF Clean
<1>8. CASE a = b
  <2>1. p \in Queueing(a)
    BY <1>1, <1>8 DEF Queueing
  <2>2. /\ Queueing(a) = {p} /\ deleted[a] /\ object[a] = "live"
        /\ \A i \in 1 .. n : removal[i] # a
    BY <1>1, <2>1, QueueingOpen DEF Clean, QueueInv, n
  <2>3. Queueing(a)' = {}
    BY <1>1, <1>3, <2>2 DEF Queueing
  <2>4. \A i \in 1 .. Len(removal') : removal'[i] = a => i = n + 1
    BY <1>4, <2>2
  <2>5. \A i, j \in 1 .. Len(removal') : removal'[i] = a /\ removal'[j] = a => i = j
    BY <2>4
  <2>6. QueueInv(a)'
    BY <1>2, <2>2, <2>3, <2>5 DEF QueueInv
  <2> QED
    BY <1>6, <2>6 DEF Clean
<1> QED
  BY <1>7, <1>8

(* RemoveAuction: the mails of an auction no bid is in progress on settle  *)
(* its books.                                                              *)
LEMMA RemoveAuctionClean ==
  ASSUME Base, RemoveAuction, NEW a \in Auctions, a \notin spoilt', Clean(a)
  PROVE  Clean(a)'
<1> DEFINE b == Head(removal)
<1>1. b \in Auctions /\ world.at = "mail" /\ 1 \in 1 .. Len(removal) /\ removal[1] = b
  BY FirstListed DEF RemoveAuction
<1>2. /\ UNCHANGED <<object, bidder, bid, deleted, reason, removal, hand>>
      /\ world' = [at |-> "erase", a |-> b]
      /\ \/ reason[b] = "expired" /\ MailExpired(b)
         \/ reason[b] = "won" /\ MailWon(b)
         \/ reason[b] = "cancelled" /\ MailCancelled(b)
  BY DEF RemoveAuction, auction
<1>3. /\ \A c \in Auctions : c # b => /\ stake'[c] = stake[c] /\ earned'[c] = earned[c]
                                      /\ given'[c] = given[c]
      /\ reason[b] = "cancelled" =>
           \A q \in Players : stake'[b][q] = stake[b][q] - Owed(b, q)
      /\ reason[b] # "cancelled" => stake' = stake
      /\ reason[b] = "won" => /\ given'[b] = Append(given[b], bidder[b])
                              /\ earned'[b] = earned[b] + bid[b] - Cut(bid[b]) + Deposit
      /\ reason[b] # "won" => given'[b] = Append(given[b], Seller[b])
  BY <1>1, <1>2, MailsBooks
<1> HIDE DEF b
<1>4. QueueInv(a)'
  BY <1>2, QueueFrame DEF Clean, QueueInv
<1>5. ~Erasing(a) /\ (Erasing(a)' <=> a = b)
  BY <1>1, <1>2 DEF Erasing
<1>6. CASE a # b
  <2>1. OpenInv(a)' /\ ClosedInv(a)'
    BY <1>2, <1>3, <1>5, <1>6, MoneyFrame DEF Clean
  <2> QED
    BY <1>4, <2>1 DEF Clean
<1>7. CASE a = b
  <2>1. Bidding(a) = {}
    BY <1>7 DEF RemoveAuction, Spoil, b
  <2>2. object[a] = "live"
    BY <1>1, <1>7 DEF Clean, QueueInv
  <2>3. given[a] = << >> /\ earned[a] = 0 /\ \A q \in Players : stake[a][q] = Owed(a, q)
    BY <1>5, <2>1, <2>2 DEF Clean, OpenInv, ClosedInv
  <2>4. /\ Bidding(a)' = {} /\ \A q \in Players : Owed(a, q)' = Owed(a, q)
        /\ Cut(bid[a])' = Cut(bid[a])
    BY <1>2, <2>1 DEF Bidding, Owed, Cut
  <2>5. PICK x : given'[a] = << x >> /\ (reason[a] = "won" => x = bidder[a])
    BY <1>3, <1>7, <2>3
  <2>6. given'[a] # << >> /\ Len(given'[a]) = 1 /\ given'[a][1] = x
    BY <2>5
  <2>7. OpenInv(a)'
    BY <1>2, <2>2, <2>4, <2>6 DEF OpenInv
  <2>8. reason[a] = "expired" => bidder[a] = None
    BY <2>3 DEF Clean, OpenInv
  <2>9. \A q \in Players : Owed(a, q) \in Int
    BY Types DEF Base, Owed
  <2>10. reason'[a] # "won" => \A q \in Players : stake'[a][q] = 0
    <3>1. CASE reason[a] = "cancelled"
      BY <1>3, <1>7, <2>3, <2>9, <3>1
    <3>2. CASE reason[a] = "expired"
      BY <1>3, <1>7, <2>3, <2>8, <3>2, AuctionAssumption DEF Owed
    <3> QED
      BY <1>2, <1>7, <3>1, <3>2
  <2>11. reason'[a] = "won" => /\ \A q \in Players : stake'[a][q] = Owed(a, q)'
                               /\ given'[a][1] = bidder'[a]
                               /\ earned'[a] = bid'[a] - Cut(bid[a])' + Deposit
    <3>1. bid[a] \in Nat /\ Cut(bid[a]) \in Nat /\ Deposit \in Nat
      BY Types, CutBound, AuctionAssumption DEF Base
    <3>2. reason[a] = "won" => earned'[a] = bid[a] - Cut(bid[a]) + Deposit
      BY <1>3, <1>7, <2>3, <3>1
    <3>3. reason[a] = "won" => stake'[a] = stake[a]
      BY <1>3, <1>7
    <3> QED
      BY <1>2, <2>3, <2>4, <2>5, <2>6, <3>2, <3>3
  <2>12. ClosedInv(a)'
    BY <1>5, <1>7, <2>6, <2>10, <2>11 DEF ClosedInv
  <2> QED
    BY <1>4, <2>7, <2>12 DEF Clean
<1> QED
  BY <1>6, <1>7

(* Erase: the auction leaves the list and is freed, with no handler   *)
(* that works on it.                                                       *)
LEMMA EraseClean ==
  ASSUME Base, Erase, NEW a \in Auctions, a \notin spoilt', Clean(a)
  PROVE  Clean(a)'
<1> DEFINE b == world.a
<1>1. /\ b \in Auctions /\ world.at = "erase" /\ 1 \in 1 .. Len(removal) /\ removal[1] = b
      /\ Len(removal) \in Nat
  BY FirstListed DEF Erase, Base, WorldInv
<1>2. /\ UNCHANGED <<bidder, bid, deleted, reason, hand, stake, earned, given>>
      /\ object' = Set(object, b, "freed") /\ removal' = Tail(removal)
      /\ world' = [at |-> IF Len(removal) = 1 THEN "scan" ELSE "mail", a |-> None]
  BY DEF Erase, money
<1>3. Len(removal') = Len(removal) - 1 /\ \A i \in 1 .. Len(removal') : removal'[i] = removal[i + 1]
  BY <1>1, <1>2, FirstListed
<1>4. /\ object'[b] = "freed" /\ \A c \in Auctions : c # b => object'[c] = object[c]
  BY <1>1, <1>2, Types DEF Base, Set
<1> HIDE DEF b
<1>5. \A i \in 1 .. Len(removal') : i + 1 \in 1 .. Len(removal) /\ i + 1 # 1
  BY <1>1, <1>3
<1>6. \A i, j \in 1 .. Len(removal') : removal'[i] = a /\ removal'[j] = a => i = j
  <2> SUFFICES ASSUME NEW i \in 1 .. Len(removal'), NEW j \in 1 .. Len(removal'),
                      removal'[i] = a, removal'[j] = a
               PROVE  i = j
    OBVIOUS
  <2>1. removal[i + 1] = a /\ removal[j + 1] = a
    BY <1>3
  <2>2. i + 1 = j + 1
    BY <1>5, <2>1 DEF Clean, QueueInv
  <2> QED
    BY <2>2
<1>7. (Erasing(a) <=> a = b) /\ ~Erasing(a)'
  BY <1>1, <1>2 DEF Erasing, b
<1>8. CASE a # b
  <2>1. \A i \in 1 .. Len(removal') : removal'[i] = a =>
          \E j \in 1 .. Len(removal) : removal[j] = a
    BY <1>3, <1>5
  <2>2. QueueInv(a)'
    BY <1>2, <1>4, <1>6, <1>8, <2>1, QueueFrame DEF Clean, QueueInv
  <2>3. OpenInv(a)' /\ ClosedInv(a)'
    BY <1>2, <1>4, <1>7, <1>8, MoneyFrame DEF Clean
  <2> QED
    BY <2>2, <2>3 DEF Clean
<1>9. CASE a = b
  <2>1. \A q \in Players : hand[q].a = a => hand[q].at = "reply"
    BY <1>9 DEF Erase, Spoil, b
  <2>2. given[a] # << >>
    BY <1>7, <1>9 DEF Clean, OpenInv
  <2>3. \A i \in 1 .. Len(removal') : removal'[i] # a
    <3> SUFFICES ASSUME NEW i \in 1 .. Len(removal'), removal'[i] = a PROVE FALSE
      OBVIOUS
    <3>1. removal[i + 1] = a /\ removal[1] = a
      BY <1>1, <1>3, <1>9
    <3> QED
      BY <1>1, <1>5, <3>1 DEF Clean, QueueInv
  <2>4. Queueing(a)' = {} /\ Bidding(a)' = {}
    BY <1>2, <2>1 DEF Queueing, Bidding
  <2>5. QueueInv(a)'
    BY <1>2, <1>4, <1>9, <2>1, <2>3, <2>4 DEF QueueInv
  <2>6. OpenInv(a)'
    BY <1>2, <1>4, <1>9, <2>2, <2>4 DEF OpenInv
  <2>7. Cut(bid[a])' = Cut(bid[a]) /\ \A q \in Players : Owed(a, q)' = Owed(a, q)
    BY <1>2 DEF Cut, Owed
  <2>8. ClosedInv(a)'
    BY <1>2, <1>4, <1>9, <2>2, <2>7 DEF Clean, ClosedInv
  <2> QED
    BY <2>5, <2>6, <2>8 DEF Clean
<1> QED
  BY <1>8, <1>9

(* UpdateAuctions: an auction whose time is over is marked and listed; it  *)
(* was neither, and has no bid in progress if it is marked as expired.     *)
LEMMA UpdateAuctionsClean ==
  ASSUME Base, UpdateAuctions, NEW a \in Auctions, a \notin spoilt', Clean(a)
  PROVE  Clean(a)'
<1>1. /\ UNCHANGED <<object, bidder, bid, hand, stake, earned, given>>
      /\ world.at = "scan" /\ world' = Rest
  BY DEF UpdateAuctions, money
<1>2. PICK order \in SetToSeqs(Over) : removal' = removal \o order
  BY DEF UpdateAuctions
<1>3. /\ order \in Seq(Auctions) /\ removal \in Seq(Auctions)
      /\ \A i \in 1 .. Len(order) : order[i] \in Over
      /\ \A i, j \in 1 .. Len(order) : order[i] = order[j] => i = j
  BY Ordered, Types DEF Base
<1>4. /\ Len(removal) \in Nat /\ Len(order) \in Nat /\ Len(removal') = Len(removal) + Len(order)
      /\ \A i \in 1 .. Len(removal') :
           removal'[i] = IF i <= Len(removal) THEN removal[i] ELSE order[i - Len(removal)]
  BY <1>2, <1>3, ConcatProperties
<1>5. \A i \in 1 .. Len(removal') : /\ i <= Len(removal) => i \in 1 .. Len(removal)
                                    /\ ~(i <= Len(removal)) => i - Len(removal) \in 1 .. Len(order)
  BY <1>4
<1>6. /\ deleted'[a] <=> deleted[a] \/ a \in Over
      /\ reason'[a] = IF a \notin Over THEN reason[a]
                      ELSE IF bidder[a] = None THEN "expired" ELSE "won"
  BY DEF UpdateAuctions
<1>7. ~Erasing(a) /\ ~Erasing(a)'
  BY <1>1 DEF Erasing, Rest
<1>8. CASE a \notin Over
  <2>1. \A i \in 1 .. Len(removal') : removal'[i] = a => i \in 1 .. Len(removal) /\ removal[i] = a
    BY <1>3, <1>4, <1>5, <1>8
  <2>2. \A i, j \in 1 .. Len(removal') : removal'[i] = a /\ removal'[j] = a => i = j
    BY <2>1 DEF Clean, QueueInv
  <2>3. QueueInv(a)'
    BY <1>1, <1>6, <1>8, <2>1, <2>2, QueueFrame DEF Clean, QueueInv
  <2>4. OpenInv(a)' /\ ClosedInv(a)'
    BY <1>1, <1>6, <1>7, <1>8, MoneyFrame DEF Clean
  <2> QED
    BY <2>3, <2>4 DEF Clean
<1>9. CASE a \in Over
  <2>1. /\ ~deleted[a] /\ Queueing(a) = {} /\ (bidder[a] = None => Bidding(a) = {})
        /\ object[a] = "live"
    BY <1>9 DEF UpdateAuctions, Over
  <2>2. \A i \in 1 .. Len(removal) : removal[i] # a
    BY <2>1 DEF Clean, QueueInv
  <2>3. \A i, j \in 1 .. Len(removal') : removal'[i] = a /\ removal'[j] = a => i = j
    <3> SUFFICES ASSUME NEW i \in 1 .. Len(removal'), NEW j \in 1 .. Len(removal'),
                        removal'[i] = a, removal'[j] = a
                 PROVE  i = j
      OBVIOUS
    <3>1. /\ i - Len(removal) \in 1 .. Len(order) /\ j - Len(removal) \in 1 .. Len(order)
          /\ order[i - Len(removal)] = a /\ order[j - Len(removal)] = a
      BY <1>4, <1>5, <2>2
    <3>2. i - Len(removal) = j - Len(removal)
      BY <1>3, <3>1
    <3> QED
      BY <1>4, <3>2
  <2>4. Queueing(a)' = {} /\ Bidding(a)' = Bidding(a)
    BY <1>1, <2>1 DEF Queueing, Bidding
  <2>5. QueueInv(a)'
    BY <1>1, <1>6, <1>9, <2>1, <2>3, <2>4 DEF Clean, QueueInv
  <2>6. given[a] = << >>
    BY <1>7, <2>1 DEF Clean, ClosedInv
  <2>7. \A q \in Players : Owed(a, q)' = Owed(a, q)
    BY <1>1 DEF Owed
  <2>8. \A q \in Bidding(a) : q \in Players
    BY DEF Bidding
  <2>9. OpenInv(a)'
    <3>1. \A q \in Bidding(a) : \A u \in Players :
            stake'[a][u] = (IF hand'[q].at = "refund" THEN Owed(a, u)' ELSE 0)
                           + (IF u = q THEN hand'[q].price ELSE 0)
      BY <1>1, <2>7, <2>8 DEF Clean, OpenInv
    <3>2. reason'[a] = "expired" => deleted'[a] /\ bidder'[a] = None /\ Bidding(a)' = {}
      BY <1>1, <1>6, <1>9, <2>1, <2>4
    <3>3. Bidding(a) = {} => \A u \in Players : stake'[a][u] = Owed(a, u)'
      BY <1>1, <2>6, <2>7 DEF Clean, OpenInv
    <3>4. \A q, u \in Bidding(a) : q = u
      BY DEF Clean, OpenInv
    <3>5. given'[a] = << >> /\ object'[a] = "live" /\ earned'[a] = 0
      BY <1>1, <2>1, <2>6 DEF Clean, OpenInv
    <3> QED
      BY <1>7, <2>4, <3>1, <3>2, <3>3, <3>4, <3>5 DEF OpenInv
  <2>10. ClosedInv(a)'
    BY <1>1, <2>6 DEF ClosedInv
  <2> QED
    BY <2>5, <2>9, <2>10 DEF Clean
<1> QED
  BY <1>8, <1>9

(* Restart: what is loaded again was not freed and has its bid. *)
LEMMA RestartClean ==
  ASSUME Base, Restart, NEW a \in Auctions, a \notin spoilt', Clean(a)
  PROVE  Clean(a)'
<1> DEFINE rows == {c \in Auctions : row[c] # "absent"}
<1>1. /\ UNCHANGED <<world, hand, stake, earned, given>>
      /\ world = Rest /\ \A p \in Players : hand[p] = Idle
      /\ removal' = << >>
  BY DEF Restart, money
<1>2. /\ object'[a] = IF a \in rows THEN "live" ELSE object[a]
      /\ bidder'[a] = IF a \in rows THEN saved[a].bidder ELSE bidder[a]
      /\ bid'[a] = IF a \in rows THEN saved[a].bid ELSE bid[a]
      /\ deleted'[a] <=> deleted[a] /\ a \notin rows
      /\ reason'[a] = IF a \in rows THEN "none" ELSE reason[a]
  BY DEF Restart
<1>3. a \in rows => object[a] # "freed" /\ saved[a] = [bidder |-> bidder[a], bid |-> bid[a]]
  BY DEF Restart
<1>4. bidder'[a] = bidder[a] /\ bid'[a] = bid[a]
  <2>1. a \in rows => saved[a].bidder = bidder[a] /\ saved[a].bid = bid[a]
    BY <1>3
  <2> QED
    BY <1>2, <2>1
<1>5. \A p \in Players : hand[p].a # a
  BY <1>1, IdleHand, AuctionAssumption
<1>6. /\ Queueing(a)' = {} /\ Bidding(a) = {} /\ Bidding(a)' = {}
      /\ ~Erasing(a) /\ ~Erasing(a)'
  BY <1>1, <1>5 DEF Queueing, Bidding, Erasing, Rest
<1>7. QueueInv(a)'
  <2>1. Len(removal') = 0
    BY <1>1
  <2>2. \A i \in 1 .. Len(removal') : FALSE
    BY <2>1
  <2> QED
    BY <1>1, <1>5, <1>6, <2>2 DEF QueueInv
<1>8. Cut(bid[a])' = Cut(bid[a]) /\ \A q \in Players : Owed(a, q)' = Owed(a, q)
  BY <1>4 DEF Cut, Owed
<1> HIDE DEF rows
<1>9. CASE a \in rows
  <2>1. given[a] = << >>
    BY <1>3, <1>6, <1>9 DEF Clean, ClosedInv
  <2>2. OpenInv(a)'
    BY <1>1, <1>2, <1>6, <1>8, <1>9, <2>1 DEF Clean, OpenInv
  <2>3. ClosedInv(a)'
    BY <1>1, <2>1 DEF ClosedInv
  <2> QED
    BY <1>7, <2>2, <2>3 DEF Clean
<1>10. CASE a \notin rows
  <2>1. OpenInv(a)' /\ ClosedInv(a)'
    BY <1>1, <1>2, <1>4, <1>6, <1>10, MoneyFrame DEF Clean
  <2> QED
    BY <1>7, <2>1 DEF Clean
<1> QED
  BY <1>9, <1>10

-----------------------------------------------------------------------------
(* No step unspoils an auction. *)
LEMMA SpoiltStays == [Next]_vars => spoilt \subseteq spoilt'
<1> SUFFICES ASSUME [Next]_vars PROVE spoilt \subseteq spoilt'
  OBVIOUS
<1>1. CASE UNCHANGED vars
  BY <1>1 DEF vars, history
<1>2. ASSUME NEW p \in Players, Handler(p)
      PROVE  spoilt \subseteq spoilt'
  BY <1>2 DEF Handler, SaveToDB, Refund, Assign, TestDeleted, SetDeleted, Push, Reply,
     history, Spoil
<1>3. ASSUME NEW p \in Players, NEW a \in Auctions,
             SellItem(p, a) \/ Cancel(p, a) \/ \E price \in Prices : PlaceBid(p, a, price)
      PROVE  spoilt \subseteq spoilt'
  BY <1>3 DEF SellItem, Cancel, PlaceBid, history, Spoil
<1>4. CASE Update \/ UpdateAuctions \/ Restart
  BY <1>4 DEF Update, UpdateDeletionQueue, RemoveAuction, Erase, NotYet, UpdateAuctions, Restart,
              history, Spoil
<1>5. ASSUME NEW a \in Auctions, Insert(a) \/ Expire(a)
      PROVE  spoilt \subseteq spoilt'
  BY <1>5 DEF Insert, Expire, history
<1> QED
  BY <1>1, <1>2, <1>3, <1>4, <1>5 DEF Next

(* An empty house satisfies the invariant. *)
LEMMA InitInv == Init => IInv
<1> SUFFICES ASSUME Init, NEW a \in Auctions PROVE Clean(a)
  BY InitBase DEF IInv
<1>1. /\ object[a] = "none" /\ bidder[a] = None /\ reason[a] = "none" /\ given[a] = << >>
      /\ earned[a] = 0 /\ removal = << >> /\ world.at = "rest"
      /\ \A p \in Players : stake[a][p] = 0 /\ hand[p].a = None
  BY IdleHand DEF Init, Rest
<1>2. Bidding(a) = {} /\ Queueing(a) = {} /\ ~Erasing(a) /\ \A p \in Players : hand[p].a # a
  BY <1>1, AuctionAssumption DEF Bidding, Queueing, Erasing
<1>3. \A i \in 1 .. Len(removal) : FALSE
  BY <1>1
<1>4. \A p \in Players : Owed(a, p) = 0
  BY <1>1, AuctionAssumption DEF Owed
<1>5. QueueInv(a)
  BY <1>2, <1>3 DEF QueueInv
<1>6. OpenInv(a)
  BY <1>1, <1>2, <1>4 DEF OpenInv
<1>7. ClosedInv(a)
  BY <1>1 DEF ClosedInv
<1> QED
  BY <1>5, <1>6, <1>7 DEF Clean

(* Every step keeps it. *)
LEMMA NextInv == IInv /\ [Next]_vars => IInv'
<1> SUFFICES ASSUME IInv, [Next]_vars, NEW a \in Auctions, a \notin spoilt' PROVE Clean(a)'
  BY NextBase DEF IInv
<1>1. Base /\ Clean(a)
  BY SpoiltStays DEF IInv
<1>2. CASE UNCHANGED vars
  BY <1>1, <1>2, IdleClean
<1>3. ASSUME NEW p \in Players, Handler(p)
      PROVE  Clean(a)'
  BY <1>1, <1>3, SaveCancelClean, RefundClean, AssignClean, TestDeletedClean, SetDeletedClean,
     PushClean DEF Handler
<1>4. ASSUME NEW p \in Players, NEW b \in Auctions,
             SellItem(p, b) \/ Cancel(p, b) \/ \E price \in Prices : PlaceBid(p, b, price)
      PROVE  Clean(a)'
  BY <1>1, <1>4, SellItemClean, SaveCancelClean, PlaceBidClean
<1>5. CASE Update \/ UpdateAuctions \/ Restart
  BY <1>1, <1>5, IdleClean, RemoveAuctionClean, EraseClean, UpdateAuctionsClean, RestartClean
     DEF Update
<1>6. ASSUME NEW b \in Auctions, Insert(b) \/ Expire(b)
      PROVE  Clean(a)'
  BY <1>1, <1>6, IdleClean
<1> QED
  BY <1>2, <1>3, <1>4, <1>5, <1>6 DEF Next

(* The invariant holds through every interleaving, removal and restart. *)
THEOREM Invariant == Spec => []IInv
  BY InitInv, NextInv, PTL DEF Spec

(* Two of at most one. *)
LEMMA AtMostOne ==
  ASSUME NEW S, NEW T,
         \A x, y \in S : x = y, \A x, y \in T : x = y, S = {} \/ T = {}
  PROVE  Cardinality(S) + Cardinality(T) <= 1
<1>1. S = {} \/ \E x : S = {x}
  OBVIOUS
<1>2. T = {} \/ \E x : T = {x}
  OBVIOUS
<1>3. Cardinality({}) = 0 /\ \A x : Cardinality({x}) = 1
  BY FS_EmptySet, FS_Singleton
<1>4. Cardinality(S) \in {0, 1} /\ Cardinality(T) \in {0, 1}
  BY <1>1, <1>2, <1>3
<1>5. Cardinality(S) = 0 \/ Cardinality(T) = 0
  BY <1>3
<1> QED
  BY <1>4, <1>5

(* An auction no race and no restart has spoilt is removed once, for every *)
(* number of auctions and of players: RemoveAuction mails its item once,   *)
(* QueueDeletion and UpdateAuctions list it once between them, and it is   *)
(* alive and marked while it is listed.                                    *)
THEOREM RemovedOnceHolds == Spec => []RemovedOnce
<1>1. IInv => RemovedOnce
  <2> SUFFICES ASSUME IInv, NEW a \in Auctions \ spoilt
               PROVE  /\ Len(given[a]) <= 1 /\ (object[a] = "freed" => Len(given[a]) = 1)
                      /\ Cardinality(Listed(a)) + Cardinality(Queueing(a)) <= 1
                      /\ Listed(a) # {} => object[a] = "live" /\ deleted[a]
    BY DEF RemovedOnce
  <2>1. Clean(a)
    BY DEF IInv
  <2>2. Len(given[a]) <= 1 /\ (object[a] = "freed" => Len(given[a]) = 1)
    <3>1. given[a] = << >> => Len(given[a]) = 0 /\ object[a] # "freed"
      BY <2>1 DEF Clean, OpenInv
    <3>2. given[a] # << >> => Len(given[a]) = 1
      BY <2>1 DEF Clean, ClosedInv
    <3> DEFINE n == Len(given[a])
    <3> HIDE DEF n
    <3>3. \/ n = 0 /\ object[a] # "freed"
          \/ n = 1
      BY <3>1, <3>2 DEF n
    <3>4. n <= 1 /\ (object[a] = "freed" => n = 1)
      BY <3>3
    <3> QED
      BY <3>4 DEF n
  <2>3. /\ \A i, j \in Listed(a) : i = j
        /\ \A p, q \in Queueing(a) : p = q
        /\ Listed(a) = {} \/ Queueing(a) = {}
    BY <2>1 DEF Clean, QueueInv, Listed
  <2>4. Cardinality(Listed(a)) + Cardinality(Queueing(a)) <= 1
    BY <2>3, AtMostOne
  <2>5. Listed(a) # {} => object[a] = "live" /\ deleted[a]
    BY <2>1 DEF Clean, QueueInv, Listed
  <2> QED
    BY <2>2, <2>4, <2>5
<1> QED
  BY Invariant, <1>1, PTL

(* "Return the money to the last highest bidder", for every number of      *)
(* auctions, players and bids: outside a bid in progress, a bidder of an   *)
(* unspoilt auction has paid exactly what he is owed for, and a won        *)
(* auction has paid its seller the bid less the cut, and the deposit.      *)
THEOREM BidderWhole == Spec => []BidderWholeUnspoilt
<1>1. IInv => BidderWholeUnspoilt
  <2> SUFFICES ASSUME IInv, NEW a \in Auctions \ spoilt, Bidding(a) = {},
                      object[a] = "freed" \/ ~Settled(a)
               PROVE  /\ \A p \in Players :
                           stake[a][p] = IF Settled(a) /\ ~Won(a) THEN 0 ELSE Owed(a, p)
                      /\ Won(a) => /\ Last(given[a]) = bidder[a]
                                   /\ earned[a] = bid[a] - Cut(bid[a]) + Deposit
    BY DEF BidderWholeUnspoilt, BidsReturned
  <2>1. Clean(a) /\ given[a] \in Seq(Players)
    BY Types DEF IInv, Base
  <2>2. Settled(a) <=> given[a] # << >>
    BY <2>1 DEF Settled
  <2>3. CASE given[a] = << >>
    BY <2>1, <2>2, <2>3 DEF Clean, OpenInv, Won
  <2>4. CASE given[a] # << >>
    <3>1. Len(given[a]) = 1 /\ Last(given[a]) = given[a][1]
      BY <2>1, <2>4 DEF Clean, ClosedInv, Last
    <3> QED
      BY <2>1, <2>2, <2>4, <3>1 DEF Clean, ClosedInv, Won
  <2> QED
    BY <2>3, <2>4
<1> QED
  BY Invariant, <1>1, PTL

-----------------------------------------------------------------------------
(* What is settled stays settled: once an unspoilt auction is removed, no  *)
(* handler, no later update and no restart revives it, mails its item      *)
(* again or moves its money.                                               *)
Settlement(a) == <<object[a], bidder[a], bid[a], given[a], stake[a], earned[a]>>
SettledForGood ==
  [][\A a \in Auctions \ spoilt' : object[a] = "freed" => UNCHANGED Settlement(a)]_vars

(* A step leaves the settlement of a freed auction alone. *)
LEMMA FreedStep ==
  ASSUME IInv, [Next]_vars, NEW a \in Auctions, a \notin spoilt', object[a] = "freed"
  PROVE  UNCHANGED Settlement(a)
<1>1. /\ Base /\ \A p \in Players : hand[p].a = a => hand[p].at = "reply"
      /\ \A i \in 1 .. Len(removal) : removal[i] # a
  BY SpoiltStays DEF IInv, Clean, QueueInv
<1> SUFFICES /\ object'[a] = object[a] /\ bidder'[a] = bidder[a] /\ bid'[a] = bid[a]
             /\ given'[a] = given[a] /\ stake'[a] = stake[a] /\ earned'[a] = earned[a]
  BY DEF Settlement
<1>2. CASE UNCHANGED vars
  BY <1>2 DEF vars, auction, money
<1>3. ASSUME NEW p \in Players, Handler(p)
      PROVE  /\ UNCHANGED <<object, given, earned>>
             /\ bidder'[a] = bidder[a] /\ bid'[a] = bid[a] /\ stake'[a] = stake[a]
  <2>1. CASE SaveToDB(p) \/ TestDeleted(p) \/ SetDeleted(p) \/ Push(p) \/ Reply(p)
    BY <2>1 DEF SaveToDB, TestDeleted, SetDeleted, Push, Reply, auction, money
  <2>2. CASE Refund(p)
    <3>1. hand[p].a \in Auctions /\ hand[p].a # a
      BY <1>1, <2>2, Held DEF Refund
    <3>2. stake'[a] = stake[a]
      BY <1>1, <2>2, <3>1, Repaid DEF Refund
    <3> QED
      BY <2>2, <3>2 DEF Refund, auction
  <2>3. CASE Assign(p)
    <3>1. /\ bidder' = Set(bidder, hand[p].a, p) /\ bid' = Set(bid, hand[p].a, hand[p].price)
          /\ hand[p].a # a
      BY <1>1, <2>3 DEF Assign
    <3>2. bidder'[a] = bidder[a] /\ bid'[a] = bid[a]
      BY <1>1, <3>1, Types DEF Base, Set
    <3> QED
      BY <2>3, <3>2 DEF Assign, money
  <2> QED
    BY <1>3, <2>1, <2>2, <2>3 DEF Handler
<1>4. ASSUME NEW p \in Players, NEW b \in Auctions, SellItem(p, b)
      PROVE  /\ UNCHANGED <<bidder, given, stake, earned>>
             /\ object'[a] = object[a] /\ bid'[a] = bid[a]
  <2>1. a # b /\ object' = Set(object, b, "live") /\ bid' = Set(bid, b, StartBid)
    BY <1>4 DEF SellItem
  <2>2. object'[a] = object[a] /\ bid'[a] = bid[a]
    BY <1>1, <2>1, Types DEF Base, Set
  <2> QED
    BY <1>4, <2>2 DEF SellItem
<1>5. ASSUME NEW p \in Players, NEW b \in Auctions, NEW price \in Prices, PlaceBid(p, b, price)
      PROVE  UNCHANGED <<object, bidder, bid, given, earned>> /\ stake'[a] = stake[a]
  <2>1. a # b /\ stake' = [stake EXCEPT ![b] = [stake[b] EXCEPT ![p] = stake[b][p] + price]]
    BY <1>5 DEF PlaceBid
  <2>2. stake'[a] = stake[a]
    BY <1>1, <2>1, Types DEF Base
  <2> QED
    BY <1>5, <2>2 DEF PlaceBid, auction
<1>6. ASSUME NEW p \in Players, NEW b \in Auctions, Cancel(p, b)
      PROVE  UNCHANGED <<object, bidder, bid, given, stake, earned>>
  BY <1>6 DEF Cancel, auction, money
<1>7. CASE UpdateDeletionQueue \/ NotYet \/ UpdateAuctions
  BY <1>7 DEF UpdateDeletionQueue, NotYet, UpdateAuctions, auction, money
<1>8. CASE RemoveAuction
  <2>1. Head(removal) \in Auctions /\ Head(removal) # a
    BY <1>1, <1>8, FirstListed DEF RemoveAuction
  <2>2. given'[a] = given[a] /\ stake'[a] = stake[a] /\ earned'[a] = earned[a]
    <3> DEFINE b == Head(removal)
    <3>1. \/ reason[b] = "expired" /\ MailExpired(b)
          \/ reason[b] = "won" /\ MailWon(b)
          \/ reason[b] = "cancelled" /\ MailCancelled(b)
      BY <1>8 DEF RemoveAuction
    <3> HIDE DEF b
    <3> QED
      BY <1>1, <2>1, <3>1, MailsBooks DEF b
  <2> QED
    BY <1>8, <2>2 DEF RemoveAuction, auction
<1>9. CASE Erase
  <2>1. object' = Set(object, world.a, "freed") /\ UNCHANGED <<bidder, bid, given, stake, earned>>
    BY <1>9 DEF Erase, money
  <2>2. object'[a] = object[a]
    BY <1>1, <2>1, Types DEF Base, Set
  <2> QED
    BY <2>1, <2>2
<1>10. CASE Restart
  <2>1. row[a] = "absent"
    BY <1>10 DEF Restart
  <2> QED
    BY <1>10, <2>1 DEF Restart, money
<1>11. ASSUME NEW b \in Auctions, Insert(b) \/ Expire(b)
       PROVE  UNCHANGED <<object, bidder, bid, given, stake, earned>>
  BY <1>11 DEF Insert, Expire, auction, money
<1> QED
  BY <1>2, <1>3, <1>4, <1>5, <1>6, <1>7, <1>8, <1>9, <1>10, <1>11 DEF Next, Update

(* Every step of every behaviour is such a step: the settlement of an      *)
(* auction that Erase freed unspoilt is final, through later handlers,     *)
(* updates and restarts.                                                   *)
THEOREM SettledStays == Spec => SettledForGood
<1>1. IInv /\ [Next]_vars =>
        [\A a \in Auctions \ spoilt' : object[a] = "freed" => UNCHANGED Settlement(a)]_vars
  BY FreedStep
<1> QED
  BY Invariant, <1>1, PTL DEF Spec, SettledForGood
=============================================================================
