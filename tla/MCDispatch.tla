------------------------------ MODULE MCDispatch ------------------------------
\* Instances of the dispatch of requests for TLC.
EXTENDS Dispatch, TLC

\* Requests that answer with pages.
MCReading == AllPages \ {"users/save", "users/del"}

\* No browser is special; only safety is checked with this.
MCBrowsersAlike == Permutations(Browsers)
==============================================================================
