---------------------------- MODULE MCHttpSession ----------------------------
\* The bounds are in the .cfg files.
EXTENDS HttpSession
=============================================================================
