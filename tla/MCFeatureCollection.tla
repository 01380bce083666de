-------------------------- MODULE MCFeatureCollection --------------------------
(* Two symbols, two months of two days; trades at chosen ticks around the     *)
(* boundaries.  A feed names the trades its monthly and its daily archives    *)
(* leave out.                                                                 *)
EXTENDS FeatureCollection

Interchangeable == Permutations(Collectors)

MCSymbols == <<"a", "b">>
MCPhases == {0, 2}

Ticks == [a |-> <<0, 1, 1, 2, 3, 5, 7, 8, 9, 11, 13, 15>>, b |-> <<1, 2, 3, 9>>]

(* One raw trade per aggregate trade, but one raw number is skipped at 6.     *)
Stream(s) == [n \in DOMAIN Ticks[s] |->
                [id |-> n, t |-> Ticks[s][n],
                 lo |-> IF n < 6 THEN n ELSE n + 1, hi |-> IF n < 6 THEN n ELSE n + 1]]

Part(s, from, to, dropped) ==
  SelectSeq(Stream(s), LAMBDA x : from <= x.t /\ x.t < to /\ x.id \notin dropped)

Good(trades) == [kind |-> "good", trades |-> trades]
Bad == [kind |-> "bad", trades |-> <<>>]

Feed(monthly, daily, number) ==
  [starts |-> number,
   withheld |-> [s \in {"a", "b"} |->
      IF s = "a" THEN {x \in Range(Stream("a")) : x.id \in monthly} ELSE {}],
   month |-> [s \in {"a", "b"} |-> [p \in 0 .. Months - 1 |->
      Good(Part(s, PeriodStart(p), PeriodEnd(p), IF s = "a" THEN monthly ELSE {}))]],
   day |-> [s \in {"a", "b"} |-> [d \in 0 .. Months * MonthDays - 1 |->
      Good(Part(s, d * Day, (d + 1) * Day, IF s = "a" THEN daily ELSE {}))]]]

Drops == <<{}, {1}, {2}, {3}, {2, 3}, {4}, {5}, {6}, {7}, {8}, {6, 7}, {7, 8}, {9}, {3, 9}, {10, 11}, {12}>>

Swapped(f) ==
  [f EXCEPT !.month["a"][1].trades = <<@[2], @[1]>> \o SubSeq(@, 3, Len(@))]

MCFeeds ==
  [k \in DOMAIN Drops |-> Feed(Drops[k], Drops[k], 1)]
    \o [k \in DOMAIN Drops |-> Feed(Drops[k], {}, 1)]
    \o <<[Feed({3}, {3}, 1) EXCEPT !.day["a"][0] = Bad],
         [Feed({}, {}, 1) EXCEPT !.month["a"][1] = Bad],
         Swapped(Feed({}, {}, 1)),
         Feed({2}, {4}, 1),
         Feed({7}, {7}, 3)>>
================================================================================
