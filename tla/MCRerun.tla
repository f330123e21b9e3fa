------------------------------ MODULE MCRerun -------------------------------
(***************************************************************************)
(* Queries for steps, one of which has two spellings, in one query or      *)
(* split; a query that is too large to expand; ranges with units, kept     *)
(* verbatim without metkit; two local files; a query tracked by its text.  *)
(***************************************************************************)
EXTENDS Rerun

By3To12 == "0/to/12h/by/3h"
By6To24 == "0/to/24h/by/6h"
By3To24 == "0/to/24h/by/3h"

MCQuery == {"0/6", "6/0", "0", "6", "360m", "huge", By3To12, By6To24, By3To24}
MCText == MCQuery \cup {"a.txt", "b.txt"}
MCMeans == [w \in {"0", "6", "360m", "to", "by", "3h", "6h", "12h", "24h"} |->
    CASE w = "0" -> {"0"} [] w \in {"6", "360m", "6h"} -> {"6"} [] w = "3h" -> {"3"}
      [] w = "12h" -> {"12"} [] w = "24h" -> {"24"} [] w \in {"to", "by"} -> {}]
MCWords == [q \in MCQuery |->
    CASE q \in {"0/6", "6/0", "huge"} -> {"0", "6"}
      [] q \in {"0", "6", "360m"} -> {q}
      [] q = By3To12 -> {"0", "to", "12h", "by", "3h"}
      [] q = By6To24 -> {"0", "to", "24h", "by", "6h"}
      [] q = By3To24 -> {"0", "to", "24h", "by", "3h"}]
MCNames == [q \in MCQuery |->
    CASE q \in {"0/6", "6/0", "huge"} -> {"0", "6"}
      [] q = "0" -> {"0"} [] q \in {"6", "360m"} -> {"6"}
      [] q = By3To12 -> {"0", "3", "6", "9", "12"}
      [] q = By6To24 -> {"0", "6", "12", "18", "24"}
      [] q = By3To24 -> {"0", "3", "6", "9", "12", "15", "18", "21", "24"}]

Trackeds == {SetToBag(S) : S \in {{"0/6"}, {"6/0"}, {"0"}, {"6"}, {"360m"}, {"huge"},
                                  {"0", "6"}, {"0", "360m"}, {},
                                  {By3To12, By6To24}, {By3To24}}}
Plains == {EmptyBag, SetToBag({"a.txt"}), SetToBag({"b.txt"}),
           SetToBag({"a.txt"}) (+) SetToBag({"a.txt"}),
           SetToBag({"6"}), SetToBag({"6", "a.txt"})}
MCVersions == {[tracked |-> t, plain |-> p] : t \in Trackeds, p \in Plains}
=============================================================================
