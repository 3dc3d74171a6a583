--------------------------- MODULE MCFeedRefresh ---------------------------
(* Model values for FeedRefresh: which feeds are on which site, and which  *)
(* a person refreshes (a folder with one of each site).                    *)
EXTENDS FeedRefresh

CONSTANTS reddit, blog

MCSites == {reddit, blog}
MCSiteOf == <<reddit, reddit, blog>>
MCPresses == {{1, 3}}
=============================================================================
