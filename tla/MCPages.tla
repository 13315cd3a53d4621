------------------------------ MODULE MCPages ------------------------------
EXTENDS Pages

\* Two subjects; the filter hides the first.
MCListings == {<<"s1", "s2">>, <<"s2">>}
=============================================================================
