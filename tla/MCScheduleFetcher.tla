-------------------------- MODULE MCScheduleFetcher --------------------------
(* Feeds that take each of the branches of the fetcher.                    *)
EXTENDS ScheduleFetcher

GoodFeed == [info |-> TRUE, valid |-> TRUE, empty |-> {}, fails |-> None]

OneFeed == {GoodFeed}

(* Dates that are over when a feed is published; there are none without a  *)
(* feed_info.txt.                                                          *)
OldFeed == [GoodFeed EXCEPT !.valid = FALSE]

SomeFeeds ==
  {GoodFeed,
   [OldFeed EXCEPT !.info = FALSE],
   [OldFeed EXCEPT !.empty = {"stops"}],
   [GoodFeed EXCEPT !.empty = {"routes"}],
   [OldFeed EXCEPT !.fails = "stops"]}

(* The properties say nothing of states after two fetches overlapped.     *)
Alone == alone
=============================================================================
