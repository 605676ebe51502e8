---------------------------------- MODULE Box ----------------------------------
\* The structure a behaviour of Collections is about.
CONSTANTS Boxes,    \* the structures checked
          NULL

VARIABLE box
=============================================================================
