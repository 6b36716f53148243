--------------------------- MODULE MCEmberRequests ---------------------------
EXTENDS EmberRequests

CONSTANTS s1, s2, z1, z2, z3, addA, addC, addD, remA, remP, obsC, n1, n2,
          ga, gb, gc, gd, gp, none

MCSends == {s1, s2}
MCZdos == {z1, z2, z3}
MCAdds == {addA, addC, addD}
MCRemoves == {remA, remP}
MCSightings == {obsC}
MCRequests == MCSends \cup MCZdos \cup MCAdds \cup MCRemoves \cup MCSightings

\* Two frames to two nodes, a frame and a ZDO request to one node, two ZDO
\* requests to one node; an add, and a sighting beside a frame, while both places
\* of the queue are taken; four operations; more groups than the table has room
\* for; a removal of a protected group.
MCMixes == {{s1, s2}, {s2, z1}, {z1, z2},
            {z1, z3, addC}, {s1, z1, obsC}, {addA, addC, remA, obsC},
            {addC, addD, obsC}, {remP, addC}}

MCKeyOf == [r \in MCRequests |-> IF r \in {s1, z3} THEN n1
                                 ELSE IF r \in {s2, z1, z2} THEN n2 ELSE none]
MCGroupOf == [r \in {addA, addC, addD, remA, remP, obsC} |->
                IF r \in {addA, remA} THEN ga ELSE IF r = addD THEN gd
                ELSE IF r = remP THEN gp ELSE gc]
MCFirstTable == <<gp, ga, gb>>
MCProtected == {gp}
=============================================================================
