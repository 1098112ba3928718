---------------------------- MODULE MCRateLimits ----------------------------
\* Two calls at once; the bounds are in the configuration.
EXTENDS RateLimits
=============================================================================
