------------------------------ MODULE MCLogger ------------------------------
(* Two zones with daylight saving, west of Greenwich, where clocks left     *)
(* local mean time for a standard time seven minutes behind it, and east,   *)
(* one without, and a zone file that ends in its types; years around the    *)
(* exceptions of the leap rule; the seconds around the changes of the zones. *)
EXTENDS Logger

At(y, d, h) == (DaysTo(y) + d) * SecondsPerDay + h * 3600

West == [cut |-> "none", idx |-> <<2, 3, 2>>,
         times |-> <<At(2007, 10, 16), At(2007, 69, 10), At(2007, 307, 9)>>,
         types |-> <<[offset |-> -28378, dst |-> FALSE], [offset |-> -28800, dst |-> FALSE],
                     [offset |-> -25200, dst |-> TRUE]>>]

East == [cut |-> "abbreviations", idx |-> <<2, 1, 2>>,
         times |-> <<At(2006, 300, 16), At(2007, 82, 16), At(2007, 299, 16)>>,
         types |-> <<[offset |-> 36000, dst |-> FALSE], [offset |-> 39600, dst |-> TRUE]>>]

MCZones == {ReadTimeZoneFile(West), ReadTimeZoneFile(East), FixedZone(8 * 3600),
            ReadTimeZoneFile([West EXCEPT !.cut = "types", !.types = SubSeq(@, 1, 1)])}

MCYears == {1900, 1903, 1904, 1969, 1970, 1999, 2000, 2006, 2007, 2037, 2100, 2400, 2500}

MCLogTimes == {DaysTo(2007) + 307} \X {32399, 32400, 32401}

MCEnds == {<<DaysTo(y + 1), 0>> : y \in MCYears \ {2006}} \cup {<<DaysTo(2007) + 307, 32401>>}

MCSecs == {0, 1, 28800, 32399, 32400, 32401, 35999, 36000, 53999, 54000, 57599, 57600, 86399}

MCMessages == {[level |-> DEBUG, text |-> NullText, number |-> 0, pointer |-> 0],
               [level |-> INFO, text |-> 53, number |-> -9, pointer |-> 1],
               [level |-> FATAL, text |-> 18, number |-> -2147483647 - 1,
                pointer |-> 2147483647]}
=============================================================================
