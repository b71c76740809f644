CONSTANTS
  n1 = n1
  n2 = n2
  n3 = n3
  c1 = c1
  c2 = c2
  p = p
  q = q
  noise = noise
  s1 = s1
  s2 = s2
  MAX_USER_NUMBER = 4
  MAX_GROUP_NUMBER = 5
  MAX_USER_NUMBER_IN_GROUP = 2
  UserNames <- SomeUsers
  CourseNames <- SomeCourses
  Passwords <- TwoPasswords
  Noise <- noise
  Clients <- TwoClients
SYMMETRY Symmetry
SPECIFICATION SessionSpec
INVARIANT SessionsOwn
