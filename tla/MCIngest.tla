-------------------------------- MODULE MCIngest --------------------------------
(* Ingest with files over five readings of the short texts: good lines in  *)
(* three hours with and without a speed, unknown modules, and lines with   *)
(* one or two flaws.                                                       *)
EXTENDS Ingest

MCModules == {"radar", "beam"}

Line(module, hour, speeds) ==
  [flaws |-> {}, module |-> module, hour |-> hour, speeds |-> speeds]

Flawed(flaws) == [Line("radar", 1, << >>) EXCEPT !.flaws = flaws]

Value(v) == [kind |-> "value", v |-> v]
Other(kind) == [kind |-> kind, v |-> 0]

\* A reading: of the empty text, of three other texts within the limit, and of
\* the rest.
Reading(c, cc, rc, others) ==
  [t \in Texts |-> CASE t = << >>       -> Flawed({"empty"})
                     [] t = <<"c">>      -> c
                     [] t = <<"c", "c">> -> cc
                     [] t = <<"r", "c">> -> rc
                     [] OTHER            -> others]

MCParse ==
  << Reading(Line("radar", 2, << >>), Line("beam", 1, <<Other("tail"), Value(3)>>),
             Line("radar", 3, <<Value(1)>>), Line("ghost", 1, <<Value(9)>>)),
     Reading(Line("beam", 2, <<Value(2)>>), Line("radar", 1, <<Other("bad"), Value(9)>>),
             Line("radar", 2, <<Other("range")>>), Flawed({"open", "length"})),
     Reading(Line("ghost", 1, <<Value(9)>>), Line("phantom", 3, << >>),
             Line("beam", 3, <<Value(1)>>), Line("radar", 1, << >>)),
     Reading(Flawed({"stamp", "tag"}), Flawed({"date"}),
             Flawed({"fields"}), Line("ghost", 1, << >>)),
     Reading(Line("beam", 3, <<Value(1)>>), Line("radar", 1, <<Value(2)>>),
             Line("ghost", 1, << >>), Line("beam", 2, <<Value(3)>>)) >>

MCLines == UNION {{MCParse[r][t] : t \in Texts} : r \in DOMAIN MCParse}

=============================================================================
